---- MODULE Spec2Model ----
(***************************************************************************)
(* Model of the asynchronous delegate library: producer threads invoke     *)
(* fire-and-forget (DelegateMemberAsync) and blocking                      *)
(* (DelegateMemberAsyncWait) delegates bound to one worker thread, whose   *)
(* message loop (WorkerThread::Process) dequeues and invokes them.         *)
(***************************************************************************)
EXTENDS Integers, Sequences, FiniteSets, TLC

\* ---- bounds of the model ------------------------------------------------
MaxCalls == 2          \* envelopes created in one behaviour
MaxArg == 1            \* arguments are drawn from 0..MaxArg

\* ---- program constants --------------------------------------------------
WAIT_INFINITE == -1
FiniteTimeout == 10

Callers == {"c1", "c2"}
Args == 0..MaxArg
Ids == 1..MaxCalls
Timeouts == {WAIT_INFINITE, FiniteTimeout}

\* TestClass::MemberFuncStdStringRetInt-like target: reads its reference
\* argument, overwrites it, and returns a value computed from what it read.
Func(x) == x + 1
FuncOut(x) == x + 10

\* Values the uninitialized RetType member m_retVal may hold (the code only
\* copies the value, so two stand for all).
UninitVals == {0, 1}

VARIABLES
    queue,        \* the worker thread's message queue (posted messages)
    threadState,  \* "running" | "exited" : WorkerThread::Process loop
    exitPosted,   \* WM_EXIT_THREAD has been posted
    env,          \* heap: per envelope id, the clone, its message and ghosts
    nextId,       \* next envelope id to allocate
    pc,           \* per caller: position inside operator()
    cur,          \* per caller: envelope id of its current / last blocking call
    m_success,    \* per caller wrapper: DelegateMemberAsyncWaitBase::m_success
    m_retVal,     \* per caller wrapper: DelegateMemberAsyncWait::m_retVal
    m_timeout,    \* per caller wrapper: DelegateMemberAsyncWaitBase::m_timeout
    argv,         \* per caller: the variable passed by reference as p1
    argIn,        \* ghost: value of argv when the current call was issued
    readShared,   \* ghost: the caller read delegate->m_retVal in this call
    enqLog,       \* ghost: envelope ids in DispatchDelegate order
    dispatchLog   \* ghost: envelope ids in the order Process invoked them

coreVars == <<queue, threadState, exitPosted, env, nextId, pc, cur,
              m_success, m_retVal, m_timeout, argv, argIn, readShared,
              enqLog, dispatchLog>>

\* State of the argument-marshaling and bound-object lifetime model.
VARIABLES
    mq,           \* worker queue of fire-and-forget envelopes (ids)
    menv,         \* per envelope: marshaled argument, clone, ghosts
    mnext,        \* next envelope id
    orig,         \* the caller's variable passed as argument (-1: destroyed)
    payload,      \* the object owned through std::shared_ptr<T> arguments
    obj           \* the target object bound through std::shared_ptr<TClass>

marshalVars == <<mq, menv, mnext, orig, payload, obj>>

\* State of the multicast registry model.
VARIABLES
    m_delegates,  \* the invocation list: node ids in list order
    heap,         \* per node id: the cloned delegate and the node's link
    nnext,        \* next node id (ids grow in registration order)
    pass,         \* the InvokeAll pass of the plain registry
    m_lock,       \* MulticastDelegateSafe::m_lock : owner or "none"
    thr           \* per thread: its operation on the thread-safe registry

regVars == <<m_delegates, heap, nnext, pass, m_lock, thr>>

\* State of the wrapper equality model: two wrappers and the last call made
\* through either of them.
VARIABLES
    lhs,          \* the wrapper on the left of operator==
    rhs,          \* the wrapper on the right of operator==
    last          \* the most recent invocation and what it did

wrapVars == <<lhs, rhs, last>>

\* State of the remote envelope model.
VARIABLES
    remote,       \* the parameter types and the delegate id of sender and receiver
    m_stream,     \* the std::stringstream shared by sender and receiver
    handed,       \* what IDelegateTransport::DispatchDelegate was given
    m_id,         \* DelegateMemberRemoteRecv::m_id of the receiver
    calls         \* the invocations of the receiver's bound target

remoteVars == <<remote, m_stream, handed, m_id, calls>>

\* State of the held-clone model: what the envelope or registry entry made
\* from the caller's wrapper was bound to when it was made.
VARIABLES
    snap          \* ghost: how the clone was made and the binding it copied

\* State of a SinglecastDelegate container.
VARIABLES
    m_delegate,   \* SinglecastDelegate::m_delegate: the clone held, 0 if none
    owned         \* ghost: every clone the container made and its deletes

\* State of one Semaphore and the threads that wait on it.
VARIABLES
    m_signaled,   \* Semaphore::m_signaled
    waiters,      \* each waiting thread: where it is in Wait and what it got
    sema          \* ghost: Signal() calls and successful Waits so far

unitVars == <<snap, m_delegate, owned, m_signaled, waiters, sema>>

outerVars == <<wrapVars, remoteVars, unitVars>>

auxVars == <<marshalVars, regVars, outerVars>>

vars == <<coreVars, auxVars>>

callerVars == <<pc, cur, m_success, m_retVal, m_timeout, argv, argIn, readShared>>

\* ---- messages -----------------------------------------------------------
DispatchMsg(i) == [msg |-> "WM_DISPATCH_DELEGATE", wParam |-> i]
ExitMsg == [msg |-> "WM_EXIT_THREAD", wParam |-> 0]

NoEnv ==
    [kind |-> "none", caller |-> "none", p1 |-> 0, refCnt |-> 0,
     lock |-> "free", signaled |-> FALSE, retVal |-> 0, tpc |-> "none",
     invoked |-> 0, entryRef |-> 0, lateDeq |-> FALSE, wres |-> "none",
     wfin |-> FALSE, doneAtWaitEnd |-> FALSE,
     cloneFreed |-> 0, msgFreed |-> 0, paramFreed |-> 0, tmsgFreed |-> 0]

\* delete msg; delete delegate: the message and the clone are released; the
\* clone's members no longer exist.  byWaiter records the waiter's exit.
Freed(e, byWaiter) ==
    [e EXCEPT !.msgFreed = @ + 1, !.cloneFreed = @ + 1,
              !.retVal = 0, !.signaled = FALSE, !.p1 = 0,
              !.wfin = IF byWaiter THEN TRUE ELSE @]

InQueue(i) == \E k \in 1..Len(queue) : queue[k] = DispatchMsg(i)

RemoveAt(q, k) == SubSeq(q, 1, k - 1) \o SubSeq(q, k + 1, Len(q))

IsPrefix(s, t) == Len(s) <= Len(t) /\ SubSeq(t, 1, Len(s)) = s

\* ---- Semaphore ----------------------------------------------------------
\* Semaphore::Wait returns true when m_signaled is set once its loop ends.
WaitReturnsTrue(sig) == sig

WaitReturnsFalseIgnoringSignal(sig, timeout) == timeout >= 0

\* Semaphore::Wait gives up only with a non-negative timeout and only while
\* m_signaled is still false.
WaitReturnsFalse(sig, timeout) == timeout >= 0 /\ ~sig

SignalLost(sig) == sig

\* Semaphore::Signal sets m_signaled.
Signal(sig) == TRUE

\* ---- reference count ----------------------------------------------------
DeleteDataOffByOne(cnt) == cnt <= 1

\* "if (--m_refCnt == 0) deleteData = true": cnt is the decremented value.
DeleteData(cnt) == cnt = 0

PreDecrementSkipped(cnt) == cnt

\* "--m_refCnt" in operator() and in DelegateInvoke.
PreDecrement(cnt) == cnt - 1

ShouldInvokeWhileReferenced(cnt) == cnt >= 1

\* DelegateInvoke calls the target function only "if (m_refCnt == 2)".
ShouldInvoke(cnt) == cnt = 2

CopiesRetValAlways(success) == TRUE

\* operator(): "if ((m_success = Wait(..))) m_retVal = delegate->m_retVal"
CopiesRetVal(success) == success

StoreRetValDropped(old, new) == old

\* DelegateInvoke: "m_retVal = BaseType::operator()(param1)"
StoreRetVal(old, new) == new

ReleaseLockForgotten(l) == l

\* The LockGuard's destructor at the end of DelegateInvoke's locked block.
ReleaseLock(l) == "free"

\* ---- the worker thread's message loop -----------------------------------
ActiveTpc == {"running", "dec", "del"}

WorkerIdleAlways == TRUE

\* Process returns to GetMessage only after DelegateInvoke returned and the
\* ThreadMsg was deleted.
WorkerIdle == \A i \in Ids : env[i].tpc \notin ActiveTpc

GetMessageNewest(q) == Len(q)

\* GetMessage retrieves the oldest posted message.
GetMessage(q) == 1

\* ThreadWin::DispatchDelegate / PostThreadMessage: append to the queue.
DispatchDelegate(q, m) == Append(q, m)

BaseOperatorCallReposts(q, m) == DispatchDelegate(q, m)

\* "BaseType::operator()(param1)" in DelegateInvoke: the qualified call is
\* the synchronous wrapper's operator(), which calls the bound function in
\* place; the queue q of the target thread is left as it is.
BaseOperatorCall(q, m) == q

\* ---- marshaled arguments and shared ownership --------------------------
MaxEnvs == 2           \* fire-and-forget envelopes created in one behaviour

MIds == 1..MaxEnvs

\* How the target function's parameter is declared: Param, Param*, Param**,
\* Param&, a pointer to a type whose DelegateParam is specialized as a
\* pass-through (TestStructNoCopy*), or std::shared_ptr<T> by value.
ArgKinds == {"value", "pointer", "pointerToPointer", "reference",
             "pointerNoCopy", "sharedPtr"}

NoMEnv ==
    [kind |-> "none", arg |-> 0, copyVal |-> -1,
     news |-> 0, dels |-> 0, allocd |-> 0, freed |-> 0,
     holdsPayload |-> FALSE, holdsObj |-> FALSE, rawObj |-> FALSE,
     stage |-> "none",
     called |-> FALSE, seen |-> -1, origAtRead |-> -1, objDead |-> FALSE, payloadDead |-> FALSE]

\* A shared_ptr control block as the model sees it: the use count, whether
\* the two named owners still hold it, and how often the object was destroyed.
Owned(n) == [useCount |-> n, caller |-> TRUE, wrapper |-> TRUE, destroyed |-> 0]

\* Values of the caller's variable: the one it has when a call is made and
\* one it is changed to (the library only copies the value).
OrigVals == {0, 1}

\* ---- multicast registry: values ------------------------------------------
MaxNodes == 3          \* delegates cloned into a registry in one behaviour

Nodes == 1..MaxNodes

\* Target functions a delegate can be bound to (its identity for operator==).
Handlers == {"A", "B", "C"}

Threads == {"t1", "t2"}

NoNode == [target |-> "none", freed |-> FALSE, staleNext |-> 0,
           frees |-> 0, by |-> "none"]

NoPass == [active |-> FALSE, node |-> 0, log |-> <<>>, snapshot |-> <<>>,
           mutated |-> FALSE, uaf |-> FALSE, crashed |-> FALSE, runs |-> 0]

NoOp == [pc |-> "idle", op |-> "none", w |-> "none", node |-> 0,
         empty |-> FALSE]

\* A wrapper object: its concrete class, the members operator== reads, the
\* members a call writes, and its address.  0 is the null pointer.
NoWrapper == [variant |-> "none", m_func |-> 0, m_object |-> 0, m_thread |-> 0,
              m_id |-> 0, m_transport |-> 0, m_success |-> FALSE, addr |-> 0]

NoCall == [who |-> "none", how |-> "none", empty |-> FALSE, outcome |-> "none"]

\* A std::stringstream: its characters, the get position (characters already
\* consumed) and the failbit and eofbit of its state.
NewStream(b) == [buf |-> b, g |-> 0, fail |-> FALSE, eof |-> FALSE]

\* No wrapper has been bound.
WrapIdle ==
    /\ lhs = NoWrapper
    /\ rhs = NoWrapper
    /\ last = NoCall

\* Nothing has been sent or received through the remote envelope.
RemoteIdle ==
    /\ remote = [types |-> <<>>, id |-> 0]
    /\ m_stream = NewStream(<<>>)
    /\ handed = <<>>
    /\ m_id = 0
    /\ calls = <<>>

NoSnap == [how |-> "none", target |-> <<0, 0>>, thread |-> 0,
           changed |-> FALSE]

MaxClones == 3

MaxSignals == 3

Waiters == {"w1", "w2"}

NoWait == [pc |-> "out", timeout |-> 0, res |-> "none", flagAtEntry |-> FALSE,
           flagAtReturn |-> FALSE]

NoSema == [signals |-> 0, taken |-> 0, fresh |-> 0]

CloneIds == 1..MaxClones

NoClone == [made |-> FALSE, frees |-> 0, target |-> "none"]

\* No clone is held and the singlecast container is empty.
UnitIdle ==
    /\ snap = NoSnap
    /\ m_delegate = 0
    /\ owned = [n \in CloneIds |-> NoClone]
    /\ m_signaled = FALSE
    /\ waiters = [w \in Waiters |-> NoWait]
    /\ sema = NoSema

OuterIdle == WrapIdle /\ RemoteIdle /\ UnitIdle

\* An empty registry that no thread is using.
RegIdle ==
    /\ m_delegates = <<>>
    /\ heap = [n \in Nodes |-> NoNode]
    /\ nnext = 1
    /\ pass = NoPass
    /\ m_lock = "none"
    /\ thr = [t \in Threads |-> NoOp]

\* No fire-and-forget call with a marshaled argument has been made.
MarshalIdle ==
    /\ mq = <<>>
    /\ menv = [i \in MIds |-> NoMEnv]
    /\ mnext = 1
    /\ orig = 0
    /\ payload = Owned(1)
    /\ obj = [sp |-> TRUE] @@ Owned(2)

Init ==
    /\ MarshalIdle
    /\ RegIdle
    /\ OuterIdle
    /\ queue = <<>>
    /\ threadState = "running"
    /\ exitPosted = FALSE
    /\ env = [i \in Ids |-> NoEnv]
    /\ nextId = 1
    /\ pc = [c \in Callers |-> "idle"]
    /\ cur = [c \in Callers |-> 0]
    /\ m_success = [c \in Callers |-> FALSE]
    /\ m_retVal \in [Callers -> UninitVals]
    /\ m_timeout \in [Callers -> Timeouts]
    /\ argv = [c \in Callers |-> 0]
    /\ argIn = [c \in Callers |-> 0]
    /\ readShared = [c \in Callers |-> FALSE]
    /\ enqLog = <<>>
    /\ dispatchLog = <<>>

\* ---- producer side: DelegateMemberAsyncWait::operator() -----------------
\* Clone, m_refCnt = 2, new message, DispatchDelegate; then the caller waits.
CallWait(c, p) ==
    /\ pc[c] = "idle"
    /\ nextId <= MaxCalls
    /\ threadState = "running"
    /\ env' = [env EXCEPT ![nextId] =
                 [NoEnv EXCEPT !.kind = "wait", !.caller = c,
                               !.refCnt = 2, !.signaled = FALSE,
                               !.retVal = m_retVal[c], !.tpc = "queued"]]
    /\ queue' = DispatchDelegate(queue, DispatchMsg(nextId))
    /\ enqLog' = Append(enqLog, nextId)
    /\ nextId' = nextId + 1
    /\ pc' = [pc EXCEPT ![c] = "wait"]
    /\ cur' = [cur EXCEPT ![c] = nextId]
    /\ argv' = [argv EXCEPT ![c] = p]
    /\ argIn' = [argIn EXCEPT ![c] = p]
    /\ readShared' = [readShared EXCEPT ![c] = FALSE]
    /\ UNCHANGED <<threadState, exitPosted, m_success, m_retVal,
                   m_timeout, dispatchLog>>
    /\ UNCHANGED auxVars

\* delegate->m_sema.Wait(m_timeout) returns; m_success and m_retVal are set.
WaitEnd(c, res) ==
    /\ pc[c] = "wait"
    /\ LET i == cur[c]
           e == env[i]
       IN /\ IF res THEN WaitReturnsTrue(e.signaled)
                    ELSE WaitReturnsFalse(e.signaled, m_timeout[c])
          /\ m_success' = [m_success EXCEPT ![c] = res]
          /\ m_retVal' = [m_retVal EXCEPT ![c] =
                            IF CopiesRetVal(res) THEN e.retVal ELSE @]
          /\ readShared' = [readShared EXCEPT ![c] = CopiesRetVal(res)]
          /\ env' = [env EXCEPT ![i].signaled = IF res THEN FALSE ELSE @,
                                ![i].wres = IF res THEN "ok" ELSE "timeout",
                                ![i].doneAtWaitEnd =
                                    (e.invoked >= 1 /\ e.tpc # "running")]
    /\ pc' = [pc EXCEPT ![c] = "lock"]
    /\ UNCHANGED <<queue, threadState, exitPosted, nextId, cur,
                   m_timeout, argv, argIn, enqLog, dispatchLog>>
    /\ UNCHANGED auxVars

\* LockGuard lockGuard(&delegate->m_lock); if (--delegate->m_refCnt == 0)
\* deleteData = true;  without deleteData the call returns m_retVal.
WaiterDec(c) ==
    /\ pc[c] = "lock"
    /\ LET i == cur[c]
           n == PreDecrement(env[i].refCnt)
       IN /\ env[i].lock = "free"
          /\ env' = [env EXCEPT ![i].refCnt = n,
                                ![i].wfin = ~DeleteData(n)]
          /\ pc' = [pc EXCEPT ![c] = IF DeleteData(n) THEN "del" ELSE "idle"]
    /\ UNCHANGED <<queue, threadState, exitPosted, nextId, cur,
                   m_success, m_retVal, m_timeout, argv, argIn, readShared,
                   enqLog, dispatchLog>>
    /\ UNCHANGED auxVars

\* if (deleteData) { delete msg; delete delegate; } return m_retVal;
WaiterDelete(c) ==
    /\ pc[c] = "del"
    /\ env' = [env EXCEPT ![cur[c]] = Freed(@, TRUE)]
    /\ pc' = [pc EXCEPT ![c] = "idle"]
    /\ UNCHANGED <<queue, threadState, exitPosted, nextId, cur,
                   m_success, m_retVal, m_timeout, argv, argIn, readShared,
                   enqLog, dispatchLog>>
    /\ UNCHANGED auxVars

\* ---- producer side: DelegateMemberAsync::operator() ---------------------
\* DelegateParam::New, Clone, new message, DispatchDelegate; returns at once.
CallAsync(c, p) ==
    /\ pc[c] = "idle"
    /\ nextId <= MaxCalls
    /\ threadState = "running"
    /\ env' = [env EXCEPT ![nextId] =
                 [NoEnv EXCEPT !.kind = "async", !.caller = c, !.p1 = p,
                               !.tpc = "queued"]]
    /\ queue' = DispatchDelegate(queue, DispatchMsg(nextId))
    /\ enqLog' = Append(enqLog, nextId)
    /\ nextId' = nextId + 1
    /\ UNCHANGED <<threadState, exitPosted, callerVars, dispatchLog>>
    /\ UNCHANGED auxVars

\* ---- posts by the runtime -----------------------------------------------
\* ExitThread posts WM_EXIT_THREAD to the worker's queue.
ExitThread ==
    /\ threadState = "running"
    /\ ~exitPosted
    /\ queue' = Append(queue, ExitMsg)
    /\ exitPosted' = TRUE
    /\ UNCHANGED <<threadState, env, nextId, callerVars,
                   enqLog, dispatchLog>>
    /\ UNCHANGED auxVars

\* ---- consumer side: WorkerThread::Process -------------------------------
\* (WM_USER_TIMER / Timer::ProcessTimers belongs to the timer facility and is
\* not part of this model.)
\* case WM_DISPATCH_DELEGATE: the message is taken off the queue and
\* DelegateInvoke is called on its delegate.
\* DelegateMemberAsyncWait::DelegateInvoke takes the clone's lock and calls
\* the target function only if (m_refCnt == 2);
\* DelegateMemberAsync::DelegateInvoke calls it unconditionally.
ProcessDispatch ==
    /\ threadState = "running"
    /\ WorkerIdle
    /\ queue # <<>>
    /\ LET k == GetMessage(queue)
           m == queue[k]
           i == m.wParam
           e == env[i]
           go == e.kind = "async" \/ ShouldInvoke(e.refCnt)
       IN /\ m.msg = "WM_DISPATCH_DELEGATE"
          /\ e.kind = "wait" => e.lock = "free"
          /\ queue' = IF go THEN BaseOperatorCall(RemoveAt(queue, k), m)
                             ELSE RemoveAt(queue, k)
          /\ env' = [env EXCEPT
                       ![i].lock = IF e.kind = "wait" THEN "target" ELSE @,
                       ![i].entryRef = e.refCnt,
                       ![i].lateDeq = (e.wres = "timeout"),
                       ![i].invoked = IF go THEN @ + 1 ELSE @,
                       ![i].tpc = IF go THEN "running" ELSE "dec"]
          /\ dispatchLog' = Append(dispatchLog, i)
    /\ UNCHANGED <<threadState, exitPosted, nextId, callerVars, enqLog>>
    /\ UNCHANGED auxVars

\* case WM_EXIT_THREAD: timeKillEvent(timerId); return 0;
ProcessExit ==
    /\ threadState = "running"
    /\ WorkerIdle
    /\ queue # <<>>
    /\ LET k == GetMessage(queue)
       IN /\ queue[k].msg = "WM_EXIT_THREAD"
          /\ queue' = RemoveAt(queue, k)
    /\ threadState' = "exited"
    /\ UNCHANGED <<exitPosted, env, nextId, callerVars,
                   enqLog, dispatchLog>>
    /\ UNCHANGED auxVars

\* ---- consumer side: DelegateMemberAsyncWait::DelegateInvoke -------------
\* m_retVal = BaseType::operator()(param1); m_sema.Signal();
\* param1 is the caller's own variable (the message holds Param1 itself).
FuncReturnWait(i) ==
    /\ env[i].kind = "wait"
    /\ env[i].tpc = "running"
    /\ LET c == env[i].caller
       IN /\ env' = [env EXCEPT ![i].retVal = StoreRetVal(@, Func(argv[c])),
                                ![i].signaled = Signal(@),
                                ![i].tpc = "dec"]
          /\ argv' = [argv EXCEPT ![c] = FuncOut(argv[c])]
    /\ UNCHANGED <<queue, threadState, exitPosted, nextId, pc,
                   cur, m_success, m_retVal, m_timeout, argIn, readShared,
                   enqLog, dispatchLog>>
    /\ UNCHANGED auxVars

\* if (--m_refCnt == 0) deleteData = true;  (the lock guard is released)
\* Without deleteData, DelegateInvoke returns and Process deletes threadMsg.
TargetDec(i) ==
    /\ env[i].kind = "wait"
    /\ env[i].tpc = "dec"
    /\ LET n == PreDecrement(env[i].refCnt)
       IN env' = [env EXCEPT ![i].refCnt = n,
                             ![i].lock = ReleaseLock(@),
                             ![i].tmsgFreed = IF DeleteData(n) THEN @ ELSE @ + 1,
                             ![i].tpc = IF DeleteData(n) THEN "del" ELSE "done"]
    /\ UNCHANGED <<queue, threadState, exitPosted, nextId,
                   callerVars, enqLog, dispatchLog>>
    /\ UNCHANGED auxVars

\* if (deleteData) { delete *msg; *msg = 0; delete this; }
\* then Process deletes threadMsg.
TargetDelete(i) ==
    /\ env[i].kind = "wait"
    /\ env[i].tpc = "del"
    /\ env' = [env EXCEPT ![i] = [Freed(@, FALSE) EXCEPT !.tmsgFreed = @ + 1,
                                                         !.tpc = "done"]]
    /\ UNCHANGED <<queue, threadState, exitPosted, nextId,
                   callerVars, enqLog, dispatchLog>>
    /\ UNCHANGED auxVars

\* ---- consumer side: DelegateMemberAsync::DelegateInvoke -----------------
\* The target function returns; DelegateParam<Param1>::Delete(param1);
\* Process deletes threadMsg, which drops the last shared_ptr to the message
\* and with it the clone.
FuncReturnAsync(i) ==
    /\ env[i].kind = "async"
    /\ env[i].tpc = "running"
    /\ env' = [env EXCEPT ![i] = [Freed(@, FALSE) EXCEPT !.paramFreed = @ + 1,
                                                         !.tmsgFreed = @ + 1,
                                                         !.tpc = "done"]]
    /\ UNCHANGED <<queue, threadState, exitPosted, nextId,
                   callerVars, enqLog, dispatchLog>>
    /\ UNCHANGED auxVars

Next ==
    \/ \E c \in Callers, p \in Args : CallWait(c, p)
    \/ \E c \in Callers, r \in BOOLEAN : WaitEnd(c, r)
    \/ \E c \in Callers : WaiterDec(c)
    \/ \E c \in Callers : WaiterDelete(c)
    \/ \E c \in Callers, p \in Args : CallAsync(c, p)
    \/ ExitThread
    \/ ProcessDispatch
    \/ ProcessExit
    \/ \E i \in Ids : FuncReturnWait(i)
    \/ \E i \in Ids : TargetDec(i)
    \/ \E i \in Ids : TargetDelete(i)
    \/ \E i \in Ids : FuncReturnAsync(i)

Spec == Init /\ [][Next]_vars

TypeOK ==
    /\ threadState \in {"running", "exited"}
    /\ nextId \in 1..(MaxCalls + 1)
    /\ \A c \in Callers : pc[c] \in {"idle", "wait", "lock", "del"}
    /\ \A i \in Ids : env[i].refCnt \in 0..2

\* ---- fairness: the worker keeps running its loop, target functions return,
\* a caller that can leave its wait or take the lock eventually does --------
WorkerStep ==
    \/ ProcessDispatch
    \/ ProcessExit
    \/ \E i \in Ids : FuncReturnWait(i) \/ TargetDec(i) \/ TargetDelete(i)
                      \/ FuncReturnAsync(i)

WaiterStep(c) ==
    \/ \E r \in BOOLEAN : WaitEnd(c, r)
    \/ WaiterDec(c)
    \/ WaiterDelete(c)

\* Progress does not depend on the values passed: the liveness specification
\* runs the same operations with one argument value and one initial m_retVal.
LiveInit == Init /\ m_retVal = [c \in Callers |-> 0]

LiveNext ==
    \/ \E c \in Callers : CallWait(c, 0)
    \/ \E c \in Callers, r \in BOOLEAN : WaitEnd(c, r)
    \/ \E c \in Callers : WaiterDec(c)
    \/ \E c \in Callers : WaiterDelete(c)
    \/ \E c \in Callers : CallAsync(c, 0)
    \/ ExitThread
    \/ ProcessDispatch
    \/ ProcessExit
    \/ \E i \in Ids : FuncReturnWait(i)
    \/ \E i \in Ids : TargetDec(i)
    \/ \E i \in Ids : TargetDelete(i)
    \/ \E i \in Ids : FuncReturnAsync(i)

LiveSpec ==
    /\ LiveInit
    /\ [][LiveNext]_vars
    /\ WF_vars(WorkerStep)
    /\ \A c \in Callers : WF_vars(WaiterStep(c))

\* ---- vocabulary of the properties ---------------------------------------
IsWait(i) == env[i].kind = "wait"

\* operator() of caller c has returned from its latest blocking call.
Returned(c) == pc[c] = "idle" /\ cur[c] # 0

\* DelegateInvoke has taken the lock and tested m_refCnt for envelope i.
PastEntry(i) == env[i].tpc \in {"running", "dec", "del", "done"}

\* Something of envelope i is still allocated.
Allocated(i) ==
    /\ env[i].kind # "none"
    /\ \/ env[i].cloneFreed = 0
       \/ env[i].msgFreed = 0
       \/ (env[i].kind = "async" /\ env[i].paramFreed = 0)

\* C1: for every blocking call the clone and its message are freed at most
\* once, and exactly once as soon as the waiter has left operator() and the
\* target thread has left DelegateInvoke, whichever order timeout and
\* completion took.
C1_ExactlyOneFree ==
    \A i \in Ids : IsWait(i) =>
        /\ env[i].cloneFreed <= 1
        /\ env[i].msgFreed <= 1
        /\ (env[i].wfin /\ env[i].tpc = "done")
              => (env[i].cloneFreed = 1 /\ env[i].msgFreed = 1)

C1_Witness ==
    \E i \in Ids : /\ IsWait(i) /\ env[i].wfin /\ env[i].tpc = "done"
                   /\ env[i].wres = "timeout" /\ env[i].invoked = 1
                   /\ env[i].cloneFreed = 1 /\ env[i].msgFreed = 1

C4_ReadsRetValOnlyOnSuccess ==
    \A c \in Callers : (pc[c] \in {"lock", "del"} \/ Returned(c)) =>
        /\ readShared[c] = m_success[c]
        /\ env[cur[c]].wres = "timeout" => (~m_success[c] /\ ~readShared[c])

C4_Witness ==
    \E c \in Callers : /\ Returned(c) /\ env[cur[c]].wres = "timeout"
                       /\ env[cur[c]].invoked = 1 /\ ~readShared[c]

\* C5: a blocking call that returns with IsSuccess() == true returns the
\* value the target function computed from this call's argument, and the
\* caller's own argument holds what the target function wrote to it.
C5_SuccessReturnsResultOfThisCall ==
    \A c \in Callers : (Returned(c) /\ m_success[c]) =>
        /\ m_retVal[c] = Func(argIn[c])
        /\ argv[c] = FuncOut(argIn[c])

C5_Witness ==
    \E c \in Callers : /\ Returned(c) /\ m_success[c] /\ cur[c] = 2
                       /\ env[1].caller = c /\ IsWait(1)
                       /\ argIn[c] = MaxArg /\ m_retVal[c] = Func(MaxArg)

C7_InfiniteWaitReturnsSuccess ==
    \A c \in Callers :
        (pc[c] = "wait" /\ m_timeout[c] = WAIT_INFINITE)
            ~> \/ (Returned(c) /\ m_success[c] /\ env[cur[c]].invoked = 1)
               \/ threadState = "exited"

C7_Witness ==
    \E c \in Callers : /\ m_timeout[c] = WAIT_INFINITE /\ Returned(c)
                       /\ m_success[c] /\ env[cur[c]].invoked = 1
                       /\ threadState = "running"

\* C8: the worker hands envelopes to DelegateInvoke in exactly the order in
\* which they were enqueued: none reordered, skipped or taken twice.
C8_DispatchOrderIsEnqueueOrder == IsPrefix(dispatchLog, enqLog)

C8_Witness ==
    /\ Len(dispatchLog) >= 2
    /\ env[dispatchLog[1]].caller # env[dispatchLog[2]].caller
    /\ env[dispatchLog[1]].kind # env[dispatchLog[2]].kind

\* C9: at most one envelope is being invoked on the worker thread at any
\* moment; nothing is popped while an invocation is in progress.
C9_OneInvocationAtATime ==
    Cardinality({i \in Ids : env[i].tpc \in ActiveTpc}) <= 1

C9_Witness ==
    \E i, j \in Ids : env[i].tpc = "running" /\ InQueue(j)

\* C10: once the worker thread has stopped, no envelope that was left in
\* its queue remains allocated.
C10_QueueDrainedAtExit ==
    threadState = "exited" => \A i \in Ids : InQueue(i) => ~Allocated(i)

\* ==== calls on a target thread whose queue is not available ==============
\* The worker thread object exists but its Process loop is not running: it
\* was never started, or it has returned on WM_EXIT_THREAD.
QueueUnavailable(ts) == ts # "running"

\* An enqueue on an unavailable queue fails: nothing is posted.
DispatchDelegateFails(q, m) == q

QueueInit ==
    /\ MarshalIdle
    /\ RegIdle
    /\ OuterIdle
    /\ queue = <<>>
    /\ threadState \in {"running", "notstarted"}
    /\ exitPosted = FALSE
    /\ env = [i \in Ids |-> NoEnv]
    /\ nextId = 1
    /\ pc = [c \in Callers |-> "idle"]
    /\ cur = [c \in Callers |-> 0]
    /\ m_success = [c \in Callers |-> FALSE]
    /\ m_retVal = [c \in Callers |-> 0]
    /\ m_timeout \in [Callers -> Timeouts]
    /\ argv = [c \in Callers |-> 0]
    /\ argIn = [c \in Callers |-> 0]
    /\ readShared = [c \in Callers |-> FALSE]
    /\ enqLog = <<>>
    /\ dispatchLog = <<>>

\* DelegateMemberAsyncWait::operator() on an unavailable queue: the clone and
\* the message are created, DispatchDelegate is called as a statement (no
\* result is looked at) and the caller goes on to m_sema.Wait(m_timeout).
CallWaitUnavailable(c) ==
    /\ pc[c] = "idle"
    /\ nextId <= MaxCalls
    /\ QueueUnavailable(threadState)
    /\ env' = [env EXCEPT ![nextId] =
                 [NoEnv EXCEPT !.kind = "wait", !.caller = c,
                               !.refCnt = 2, !.signaled = FALSE,
                               !.retVal = m_retVal[c], !.tpc = "rejected"]]
    /\ queue' = DispatchDelegateFails(queue, DispatchMsg(nextId))
    /\ nextId' = nextId + 1
    /\ pc' = [pc EXCEPT ![c] = "wait"]
    /\ cur' = [cur EXCEPT ![c] = nextId]
    /\ argv' = [argv EXCEPT ![c] = 0]
    /\ argIn' = [argIn EXCEPT ![c] = 0]
    /\ readShared' = [readShared EXCEPT ![c] = FALSE]
    /\ UNCHANGED <<threadState, exitPosted, m_success, m_retVal,
                   m_timeout, enqLog, dispatchLog>>
    /\ UNCHANGED auxVars

\* DelegateMemberAsync::operator() on an unavailable queue: the argument is
\* marshaled, DispatchDelegate is called as a statement and operator()
\* returns void; the shared_ptrs to the message and the clone go out of
\* scope, the marshaled argument is not released.
CallAsyncUnavailable(c) ==
    /\ pc[c] = "idle"
    /\ nextId <= MaxCalls
    /\ QueueUnavailable(threadState)
    /\ env' = [env EXCEPT ![nextId] =
                 Freed([NoEnv EXCEPT !.kind = "async", !.caller = c,
                                     !.tpc = "rejected"], FALSE)]
    /\ queue' = DispatchDelegateFails(queue, DispatchMsg(nextId))
    /\ nextId' = nextId + 1
    /\ UNCHANGED <<threadState, exitPosted, callerVars, enqLog, dispatchLog>>
    /\ UNCHANGED auxVars

QueueNext ==
    \/ \E c \in Callers : CallWait(c, 0)
    \/ \E c \in Callers : CallWaitUnavailable(c)
    \/ \E c \in Callers, r \in BOOLEAN : WaitEnd(c, r)
    \/ \E c \in Callers : WaiterDec(c)
    \/ \E c \in Callers : WaiterDelete(c)
    \/ \E c \in Callers : CallAsync(c, 0)
    \/ \E c \in Callers : CallAsyncUnavailable(c)
    \/ ExitThread
    \/ ProcessDispatch
    \/ ProcessExit
    \/ \E i \in Ids : FuncReturnWait(i)
    \/ \E i \in Ids : TargetDec(i)
    \/ \E i \in Ids : TargetDelete(i)
    \/ \E i \in Ids : FuncReturnAsync(i)

QueueSpec == QueueInit /\ [][QueueNext]_vars

\* C11: a blocking call whose enqueue was rejected because the target thread
\* has exited or was never started does not go on to wait for its envelope:
\* no caller is ever inside m_sema.Wait on a rejected envelope.
C11_RejectedCallDoesNotWait ==
    \A c \in Callers :
        (cur[c] # 0 /\ env[cur[c]].tpc = "rejected") => pc[c] # "wait"

\* ==== fire-and-forget calls: argument marshaling and shared ownership ====
\* ---- DelegateParam<Param> ------------------------------------------------
\* Heap cells DelegateParam<Param>::New allocates for one argument.
NewCells(k) ==
    CASE k = "pointer" -> 1
      [] k = "pointerToPointer" -> 2
      [] k = "reference" -> 1
      [] OTHER -> 0

DeleteCellsOuterOnly(k) ==
    CASE k = "pointer" -> 1
      [] k = "pointerToPointer" -> 1
      [] k = "reference" -> 1
      [] OTHER -> 0

\* Heap cells DelegateParam<Param>::Delete releases for one argument.
DeleteCells(k) ==
    CASE k = "pointer" -> 1
      [] k = "pointerToPointer" -> 2
      [] k = "reference" -> 1
      [] OTHER -> 0

CopiesValueNever(k) == k = "value"

\* The marshaled argument carries its own copy of the value: the by-value
\* Param itself, or the object New copy-constructed on the heap.
CopiesValue(k) == k \in {"value", "pointer", "pointerToPointer", "reference"}

\* ---- std::shared_ptr -----------------------------------------------------
RetainNothing(r) == r

\* Copying a shared_ptr adds one owner.
Retain(r) == [r EXCEPT !.useCount = @ + 1]

\* Destroying or resetting a shared_ptr removes one owner; the last owner
\* destroys the object.
Release(r) ==
    [r EXCEPT !.useCount = @ - 1,
              !.destroyed = IF r.useCount = 1 THEN @ + 1 ELSE @]

Alive(r) == r.destroyed = 0

CloneObjectRaw(o) == o

\* Clone() copy-constructs the wrapper: the clone's m_object is a copy of the
\* std::shared_ptr<TClass>.
CloneObject(o) == Retain(o)

\* What a read through a dangling pointer may yield.
DanglingVals == OrigVals \cup {-1}

\* No blocking or plain asynchronous call of the first part is in progress.
CoreIdle ==
    /\ queue = <<>>
    /\ threadState = "running"
    /\ exitPosted = FALSE
    /\ env = [i \in Ids |-> NoEnv]
    /\ nextId = 1
    /\ pc = [c \in Callers |-> "idle"]
    /\ cur = [c \in Callers |-> 0]
    /\ m_success = [c \in Callers |-> FALSE]
    /\ m_retVal = [c \in Callers |-> 0]
    /\ m_timeout = [c \in Callers |-> WAIT_INFINITE]
    /\ argv = [c \in Callers |-> 0]
    /\ argIn = [c \in Callers |-> 0]
    /\ readShared = [c \in Callers |-> FALSE]
    /\ enqLog = <<>>
    /\ dispatchLog = <<>>

MarshalInit ==
    /\ CoreIdle
    /\ RegIdle
    /\ OuterIdle
    /\ mq = <<>>
    /\ menv = [i \in MIds |-> NoMEnv]
    /\ mnext = 1
    /\ orig \in OrigVals
    /\ payload = Owned(1)
    /\ obj = [sp |-> TRUE] @@ Owned(2)

\* ---- producer ------------------------------------------------------------
\* DelegateMemberAsync::operator() (obj.sp = FALSE: the wrapper and its
\* clones hold the target object by a raw pointer) and
\* DelegateMemberSpAsync::operator() (obj.sp = TRUE: by std::shared_ptr):
\* heapParam1 = DelegateParam<Param1>::New(p1); Clone(); new message holding
\* the clone and heapParam1; DispatchDelegate(msg).  Of the shared_ptr
\* temporaries of the call only the message's copy outlives operator().
MCall(k) ==
    /\ mnext <= MaxEnvs
    /\ orig # -1
    /\ k = "sharedPtr" => payload.caller
    /\ LET keepsObj == obj.sp /\ obj.wrapper
       IN /\ menv' = [menv EXCEPT ![mnext] =
                        [NoMEnv EXCEPT
                           !.kind = k, !.arg = orig,
                           !.copyVal = IF CopiesValue(k) THEN orig ELSE -1,
                           !.news = 1, !.allocd = NewCells(k),
                           !.holdsPayload = (k = "sharedPtr"),
                           !.holdsObj = keepsObj,
                           !.rawObj = (~obj.sp /\ obj.wrapper),
                           !.stage = "queued"]]
          /\ payload' = IF k = "sharedPtr" THEN Retain(payload) ELSE payload
          /\ obj' = IF keepsObj THEN CloneObject(obj) ELSE obj
    /\ mq' = Append(mq, mnext)
    /\ mnext' = mnext + 1
    /\ UNCHANGED <<orig, coreVars>>
    /\ UNCHANGED <<regVars, outerVars>>

\* The caller assigns to the variable it passed.
CallerModify(v) ==
    /\ orig # -1
    /\ v # orig
    /\ orig' = v
    /\ UNCHANGED <<mq, menv, mnext, payload, obj, coreVars>>
    /\ UNCHANGED <<regVars, outerVars>>

\* The caller's variable goes out of scope.
CallerDestroy ==
    /\ orig # -1
    /\ orig' = -1
    /\ UNCHANGED <<mq, menv, mnext, payload, obj, coreVars>>
    /\ UNCHANGED <<regVars, outerVars>>

\* The caller's std::shared_ptr<T> to the payload goes out of scope.
CallerDropPayload ==
    /\ payload.caller
    /\ payload' = [Release(payload) EXCEPT !.caller = FALSE]
    /\ UNCHANGED <<mq, menv, mnext, orig, obj, coreVars>>
    /\ UNCHANGED <<regVars, outerVars>>

\* delegateMemberSpAsync.Clear() / delegateMemberAsync.Clear(): m_object = 0.
WrapperClear ==
    /\ obj.wrapper
    /\ obj' = [(IF obj.sp THEN Release(obj) ELSE obj) EXCEPT !.wrapper = FALSE]
    /\ UNCHANGED <<mq, menv, mnext, orig, payload, coreVars>>
    /\ UNCHANGED <<regVars, outerVars>>

\* testClassSp.reset() / delete testClassHeap
HandleReset ==
    /\ obj.caller
    /\ obj' = [Release(obj) EXCEPT !.caller = FALSE]
    /\ UNCHANGED <<mq, menv, mnext, orig, payload, coreVars>>
    /\ UNCHANGED <<regVars, outerVars>>

\* ---- consumer ------------------------------------------------------------
MWorkerIdle == \A i \in MIds : menv[i].stage \notin {"running", "returned"}

\* Process takes the oldest envelope and calls DelegateInvoke, which calls
\* BaseType::operator()(param1): the target function is entered when the
\* clone's m_object is not null.
MDequeue ==
    /\ MWorkerIdle
    /\ mq # <<>>
    /\ LET i == Head(mq)
           e == menv[i]
       IN menv' = [menv EXCEPT
                     ![i].stage = "running",
                     ![i].called = (e.holdsObj \/ (~obj.sp /\ e.rawObj)),
                     ![i].objDead = ~Alive(obj),
                     ![i].payloadDead = (e.kind = "sharedPtr" /\ ~Alive(payload))]
    /\ mq' = Tail(mq)
    /\ UNCHANGED <<mnext, orig, payload, obj, coreVars>>
    /\ UNCHANGED <<regVars, outerVars>>

\* The value the target function reads through its parameter.
Observed(e) ==
    IF CopiesValue(e.kind) THEN {e.copyVal}
    ELSE IF e.kind = "sharedPtr"
         THEN (IF Alive(payload) THEN {e.arg} ELSE DanglingVals)
         ELSE (IF orig = -1 THEN DanglingVals ELSE {orig})

\* The target function reads its argument and returns.
MFuncReturn(i) ==
    /\ menv[i].stage = "running"
    /\ \E v \in Observed(menv[i]) :
          menv' = [menv EXCEPT ![i].stage = "returned",
                               ![i].origAtRead = orig,
                               ![i].seen = IF menv[i].called THEN v ELSE @]
    /\ UNCHANGED <<mq, mnext, orig, payload, obj, coreVars>>
    /\ UNCHANGED <<regVars, outerVars>>

\* DelegateParam<Param1>::Delete(param1); DelegateInvoke returns and the last
\* shared_ptr to the message goes away, with it the message's argument copy
\* and the clone.
MDelete(i) ==
    /\ menv[i].stage = "returned"
    /\ LET e == menv[i]
       IN /\ menv' = [menv EXCEPT ![i].stage = "done",
                                  ![i].dels = @ + 1,
                                  ![i].freed = @ + DeleteCells(e.kind),
                                  ![i].copyVal = -1,
                                  ![i].holdsPayload = FALSE,
                                  ![i].holdsObj = FALSE]
          /\ payload' = IF e.holdsPayload THEN Release(payload) ELSE payload
          /\ obj' = IF e.holdsObj THEN Release(obj) ELSE obj
    /\ UNCHANGED <<mq, mnext, orig, coreVars>>
    /\ UNCHANGED <<regVars, outerVars>>

MarshalNext ==
    \/ \E k \in ArgKinds : MCall(k)
    \/ \E v \in OrigVals : CallerModify(v)
    \/ CallerDestroy
    \/ CallerDropPayload
    \/ MDequeue
    \/ \E i \in MIds : MFuncReturn(i)
    \/ \E i \in MIds : MDelete(i)

MarshalSpec == MarshalInit /\ [][MarshalNext]_vars

\* ---- lifetime of the bound target object --------------------------------
\* The same calls made through a wrapper bound by std::shared_ptr<TClass>
\* (DelegateMemberSpAsync, the handle and the wrapper own the object) or by a
\* raw TClass* (DelegateMemberAsync, only the caller owns it); the caller may
\* clear the wrapper and give up the object at any time.
LifetimeInit ==
    /\ CoreIdle
    /\ RegIdle
    /\ OuterIdle
    /\ mq = <<>>
    /\ menv = [i \in MIds |-> NoMEnv]
    /\ mnext = 1
    /\ orig = 0
    /\ payload = Owned(1)
    /\ \E sp \in BOOLEAN : obj = [sp |-> sp] @@ Owned(IF sp THEN 2 ELSE 1)

LifetimeNext ==
    \/ MCall("value")
    \/ WrapperClear
    \/ HandleReset
    \/ MDequeue
    \/ \E i \in MIds : MFuncReturn(i)
    \/ \E i \in MIds : MDelete(i)

LifetimeSpec == LifetimeInit /\ [][LifetimeNext]_vars

\* ---- vocabulary of the marshaling properties ----------------------------
Made(i) == menv[i].kind # "none"

\* The envelope has been enqueued and DelegateInvoke has not yet released it.
Pending(i) == menv[i].stage \in {"queued", "running", "returned"}

Duplicating == {"pointer", "pointerToPointer", "reference"}

\* C12: for every fire-and-forget call DelegateParam::New has run exactly
\* once when the envelope is enqueued; DelegateParam::Delete has not run
\* while the envelope is queued or its target function is executing; once
\* the envelope is consumed Delete has run exactly once, every heap cell New
\* allocated has been freed, and never more cells are freed than allocated.
C12_NewOnceDeleteOnce ==
    \A i \in MIds : Made(i) =>
        /\ menv[i].news = 1
        /\ menv[i].allocd = NewCells(menv[i].kind)
        /\ menv[i].freed <= menv[i].allocd
        /\ menv[i].stage \in {"queued", "running"}
              => (menv[i].dels = 0 /\ menv[i].freed = 0)
        /\ menv[i].stage = "returned" => menv[i].dels = 0
        /\ menv[i].stage = "done"
              => (menv[i].dels = 1 /\ menv[i].freed = menv[i].allocd)

C12_Witness ==
    \E i \in MIds : /\ menv[i].kind = "pointerToPointer"
                    /\ menv[i].stage = "done"
                    /\ menv[i].called
                    /\ menv[i].freed = 2

\* C13 as stated: with any pointer, pointer-to-pointer or reference argument
\* the target function observes the value the argument had when the call
\* was made.
C13_PointerArgSeesValueAtCall ==
    \A i \in MIds :
        (/\ menv[i].kind \in Duplicating \cup {"pointerNoCopy"}
         /\ menv[i].called
         /\ menv[i].stage \in {"returned", "done"})
            => menv[i].seen = menv[i].arg

\* C13: with a pointer, pointer-to-pointer or reference argument marshaled by
\* the library's DelegateParam specializations the target function observes
\* the value the argument had when the call was made; with a pointer to a
\* type whose DelegateParam is a pass-through it observes the caller's
\* original as it is when the function runs.
C13_DuplicatedArgSeesValueAtCall ==
    \A i \in MIds :
        (menv[i].called /\ menv[i].stage \in {"returned", "done"}) =>
            /\ menv[i].kind \in Duplicating => menv[i].seen = menv[i].arg
            /\ (menv[i].kind = "pointerNoCopy" /\ menv[i].origAtRead # -1)
                  => menv[i].seen = menv[i].origAtRead

C13_Witness ==
    \E i, j \in MIds :
        /\ menv[i].kind = "reference" /\ menv[i].stage = "done"
        /\ menv[i].called
        /\ menv[i].origAtRead # menv[i].arg
        /\ menv[i].seen = menv[i].arg
        /\ menv[j].kind = "pointerNoCopy" /\ menv[j].stage = "returned"
        /\ menv[j].seen # menv[j].arg

HoldersOfPayload == {i \in MIds : menv[i].holdsPayload}

\* C14: a std::shared_ptr<T> argument is never duplicated on the heap; the
\* payload's owners are the caller's handle and one reference per pending
\* envelope carrying it; the payload is alive while such an envelope is
\* pending and when its target function runs; it is destroyed exactly once,
\* when the caller has dropped its handle and the last envelope is consumed.
C14_SharedPayloadRetainedPerEnvelope ==
    /\ \A i \in MIds : menv[i].kind = "sharedPtr" =>
          /\ menv[i].allocd = 0
          /\ Pending(i) <=> menv[i].holdsPayload
          /\ Pending(i) => Alive(payload)
          /\ ~menv[i].payloadDead
    /\ payload.useCount =
          Cardinality(HoldersOfPayload) + (IF payload.caller THEN 1 ELSE 0)
    /\ payload.destroyed <= 1
    /\ (payload.destroyed = 1) <=> (~payload.caller /\ HoldersOfPayload = {})

C14_Witness ==
    \E i, j \in MIds :
        /\ i # j
        /\ menv[i].kind = "sharedPtr" /\ menv[i].stage = "done"
        /\ menv[i].called
        /\ menv[j].kind = "sharedPtr" /\ menv[j].stage = "queued"
        /\ ~payload.caller
        /\ Alive(payload)

\* C15: with a wrapper bound through std::shared_ptr<TClass> the target
\* object is alive while the wrapper holds it and while any clone made for a
\* queued call exists; the target function never runs on a destroyed
\* object, whatever the caller cleared or reset after the call; the object
\* is destroyed at most once.
C15_SharedBoundObjectOutlivesCall ==
    obj.sp =>
        /\ obj.wrapper => Alive(obj)
        /\ \A i \in MIds : menv[i].holdsObj => Alive(obj)
        /\ \A i \in MIds : menv[i].called => ~menv[i].objDead
        /\ obj.destroyed <= 1

C15_Witness ==
    /\ obj.sp /\ ~obj.wrapper /\ ~obj.caller
    /\ Alive(obj)
    /\ \E i \in MIds : menv[i].stage = "running" /\ menv[i].called

\* ==== multicast registry (MulticastDelegate) =============================
PushFront(list, n) == <<n>> \o list

\* operator+= : m_delegates.push_back(delegate.Clone())
PushBack(list, n) == Append(list, n)

\* The positions of list whose delegate compares equal to a delegate bound
\* to w (operator== compares the bound target).
EqualAt(list, h, w) == {k \in 1..Len(list) : h[list[k]].target = w}

LastEqual(list, h, w) ==
    IF EqualAt(list, h, w) = {} THEN 0
    ELSE CHOOSE k \in EqualAt(list, h, w) :
             \A j \in EqualAt(list, h, w) : j <= k

RECURSIVE FirstEqualFrom(_, _, _, _)
\* operator-= : for (it = begin; it != end; ++it) if (delegate == **it) ...
FirstEqualFrom(list, h, w, k) ==
    IF k > Len(list) THEN 0
    ELSE IF h[list[k]].target = w THEN k
    ELSE FirstEqualFrom(list, h, w, k + 1)

\* The position operator-= stops at (0 when it reaches end()).
FirstEqual(list, h, w) == FirstEqualFrom(list, h, w, 1)

\* GetInvocationHead()
Head0(list) == IF list = <<>> THEN 0 ELSE list[1]

\* node->Next of the node at position k.
SuccOf(list, k) == IF k < Len(list) THEN list[k + 1] ELSE 0

PosOf(list, n) == CHOOSE k \in 1..Len(list) : list[k] = n

\* operator-= : delete (*it); m_delegates.erase(it); break;
ListAfterRemove(list, h, w) ==
    LET k == FirstEqual(list, h, w)
    IN IF k = 0 THEN list ELSE RemoveAt(list, k)

\* The freed node's memory keeps the link it had.
HeapAfterRemove(list, h, w) ==
    LET k == FirstEqual(list, h, w)
    IN IF k = 0 THEN h
       ELSE [h EXCEPT ![list[k]].freed = TRUE,
                      ![list[k]].frees = @ + 1,
                      ![list[k]].by = "remove",
                      ![list[k]].staleNext = SuccOf(list, k)]

HeapAfterAdd(h, n, w) ==
    [h EXCEPT ![n] = [NoNode EXCEPT !.target = w]]

InList(list, n) == \E k \in 1..Len(list) : list[k] = n

HeapAfterClearSkipsTail(list, h) ==
    [n \in DOMAIN h |->
       IF InList(list, n) /\ n # list[Len(list)]
       THEN [h[n] EXCEPT !.freed = TRUE, !.frees = @ + 1, !.by = "clear",
                         !.staleNext = SuccOf(list, PosOf(list, n))]
       ELSE h[n]]

\* Clear(): while (it != end()) { delete (*it); it = erase(it); }
HeapAfterClear(list, h) ==
    [n \in DOMAIN h |->
       IF InList(list, n)
       THEN [h[n] EXCEPT !.freed = TRUE, !.frees = @ + 1, !.by = "clear",
                         !.staleNext = SuccOf(list, PosOf(list, n))]
       ELSE h[n]]

EmptyWhenSingle(list) == Len(list) <= 1

\* Empty(): return !m_invocationHead;
Empty(list) == Head0(list) = 0

\* explicit operator bool(): return !Empty();
OperatorBool(list) == ~Empty(list)

RegInit ==
    /\ CoreIdle
    /\ MarshalIdle
    /\ RegIdle
    /\ OuterIdle

Running == ~pass.crashed

\* registry += MakeDelegate(w)
Add(w) ==
    /\ Running /\ ~pass.active
    /\ nnext <= MaxNodes
    /\ m_delegates' = PushBack(m_delegates, nnext)
    /\ heap' = HeapAfterAdd(heap, nnext, w)
    /\ nnext' = nnext + 1
    /\ UNCHANGED <<pass, m_lock, thr, coreVars, marshalVars, outerVars>>

\* registry -= MakeDelegate(w)
Remove(w) ==
    /\ Running /\ ~pass.active
    /\ m_delegates' = ListAfterRemove(m_delegates, heap, w)
    /\ heap' = HeapAfterRemove(m_delegates, heap, w)
    /\ UNCHANGED <<nnext, pass, m_lock, thr, coreVars, marshalVars, outerVars>>

\* Clear(): while (it != end) { delete (*it); it = erase(it); }
Clear ==
    /\ Running /\ ~pass.active
    /\ m_delegates' = <<>>
    /\ heap' = HeapAfterClear(m_delegates, heap)
    /\ UNCHANGED <<nnext, pass, m_lock, thr, coreVars, marshalVars, outerVars>>

\* operator()(p1): InvocationNode* node = GetInvocationHead();
InvokeStart ==
    /\ Running /\ ~pass.active
    /\ pass' = [NoPass EXCEPT !.active = TRUE, !.node = Head0(m_delegates),
                              !.snapshot = m_delegates]
    /\ UNCHANGED <<m_delegates, heap, nnext, m_lock, thr, coreVars, marshalVars, outerVars>>

\* What the target function of an entry does to the registry while it runs.
HandlerActs ==
    {[op |-> "none", w |-> "none"]} \cup [op : {"add", "remove"}, w : Handlers]

ListAfter(ha) ==
    CASE ha.op = "add" -> PushBack(m_delegates, nnext)
      [] ha.op = "remove" -> ListAfterRemove(m_delegates, heap, ha.w)
      [] OTHER -> m_delegates

HeapAfter(ha) ==
    CASE ha.op = "add" -> HeapAfterAdd(heap, nnext, ha.w)
      [] ha.op = "remove" -> HeapAfterRemove(m_delegates, heap, ha.w)
      [] OTHER -> heap

\* One round of "while (node != 0)": (*delegate)(p1) runs the entry's target
\* function, which may add to or remove from this registry; then
\* node = node->Next is read from the node as it is after the call.  A node
\* removed meanwhile has been deleted: reading it is undefined, and yields
\* its old link, null, or a crash (out).
InvokeStep(ha, out) ==
    /\ Running /\ pass.active
    /\ pass.node # 0
    /\ ha.op = "add" => nnext <= MaxNodes
    /\ LET n == pass.node
           enteredFreed == heap[n].freed
           list2 == ListAfter(ha)
           heap2 == HeapAfter(ha)
           gone == heap2[n].freed
       IN /\ (~gone) => out = "next"
          /\ m_delegates' = list2
          /\ heap' = heap2
          /\ nnext' = IF ha.op = "add" THEN nnext + 1 ELSE nnext
          /\ pass' = [pass EXCEPT
                        !.log = Append(@, n),
                        !.mutated = @ \/ ha.op # "none",
                        !.uaf = @ \/ gone,
                        !.crashed = (out = "crash"),
                        !.node = CASE gone /\ out = "next" -> heap2[n].staleNext
                                   [] gone -> 0
                                   [] OTHER -> SuccOf(list2, PosOf(list2, n))]
    /\ UNCHANGED <<m_lock, thr, coreVars, marshalVars, outerVars>>

\* node == 0: operator() returns.
InvokeEnd ==
    /\ Running /\ pass.active
    /\ pass.node = 0
    /\ pass' = [pass EXCEPT !.active = FALSE]
    /\ UNCHANGED <<m_delegates, heap, nnext, m_lock, thr, coreVars, marshalVars, outerVars>>

RegNext ==
    \/ \E w \in Handlers : Add(w)
    \/ \E w \in Handlers : Remove(w)
    \/ Clear
    \/ InvokeStart
    \/ \E ha \in HandlerActs, out \in {"next", "null", "crash"} : InvokeStep(ha, out)
    \/ InvokeEnd

RegSpec == RegInit /\ [][RegNext]_vars

\* ---- vocabulary of the registry properties ------------------------------
\* Node ids are handed out in registration order.
IsRegistrationOrder(list) ==
    \A i, j \in 1..Len(list) : i < j => list[i] < list[j]

TargetsOf(list) == [k \in 1..Len(list) |-> heap[list[k]].target]

RemovePost(w) ==
    LET eq == EqualAt(m_delegates, heap, w)
    IN IF eq = {}
       THEN m_delegates' = m_delegates /\ heap' = heap
       ELSE \E k \in eq :
               /\ \A j \in eq : k <= j
               /\ m_delegates' = RemoveAt(m_delegates, k)
               /\ ~heap[m_delegates[k]].freed
               /\ heap'[m_delegates[k]].freed
               /\ \A n \in Nodes \ {m_delegates[k]} : heap'[n] = heap[n]

\* C17: Remove(wrapper) removes and frees exactly the first entry, in
\* registration order, that is equal to the wrapper, and leaves every other
\* entry and their order unchanged; without an equal entry nothing changes.
C17_RemoveFirstEqualOnly ==
    [][\A w \in Handlers : Remove(w) => RemovePost(w)]_vars

C17_Witness ==
    /\ pass = NoPass
    /\ m_delegates = <<2, 3>>
    /\ heap[1].freed
    /\ heap[1].target = heap[3].target
    /\ heap[2].target # heap[3].target

\* C18 as stated: a pass invokes exactly the entries registered when it
\* started, in that order, whatever its target functions add or remove.
C18_PassInvokesSnapshot ==
    /\ IsPrefix(pass.log, pass.snapshot)
    /\ (~pass.active /\ ~pass.crashed) => pass.log = pass.snapshot

\* C19 as stated: a pass never reads an entry that was removed and freed
\* during the pass, and never crashes.
C19_PassNeverTouchesFreedEntry == ~pass.uaf /\ ~pass.crashed

\* ==== thread-safe multicast registry (MulticastDelegateSafe) =============
SafeOps == {"Add", "Remove", "InvokeAll", "Empty", "Clear"}

TakesLockUnlessEmpty(op) == op # "Empty"

\* Each of operator+=, operator-=, operator(), Empty and Clear starts with
\* "LockGuard lockGuard(&m_lock);".
TakesLock(op) == op \in SafeOps

\* The thread is inside an operation of the registry.
InOp(t) == thr[t].pc # "idle"

\* LockGuard's constructor returns once the caller owns the lock.
SafeEnter(t, op, w) ==
    /\ thr[t].pc = "idle"
    /\ (op \in {"Add", "Remove"}) <=> (w # "none")
    /\ op = "Add" => nnext <= MaxNodes
    /\ TakesLock(op) => m_lock = "none"
    /\ m_lock' = IF TakesLock(op) THEN t ELSE m_lock
    /\ thr' = [thr EXCEPT ![t] = [NoOp EXCEPT !.pc = "in", !.op = op, !.w = w]]
    /\ UNCHANGED <<m_delegates, heap, nnext, pass, coreVars, marshalVars, outerVars>>

\* The base class operation runs: MulticastDelegateBase::operator+=,
\* operator-=, Clear, Empty, or the start of MulticastDelegate::operator().
SafeBody(t) ==
    /\ thr[t].pc = "in"
    /\ LET o == thr[t]
       IN /\ thr[t].op = "Add" => nnext <= MaxNodes
          /\ m_delegates' =
                CASE o.op = "Add" -> PushBack(m_delegates, nnext)
                  [] o.op = "Remove" -> ListAfterRemove(m_delegates, heap, o.w)
                  [] o.op = "Clear" -> <<>>
                  [] OTHER -> m_delegates
          /\ heap' =
                CASE o.op = "Add" -> HeapAfterAdd(heap, nnext, o.w)
                  [] o.op = "Remove" -> HeapAfterRemove(m_delegates, heap, o.w)
                  [] o.op = "Clear" -> HeapAfterClear(m_delegates, heap)
                  [] OTHER -> heap
          /\ nnext' = IF o.op = "Add" THEN nnext + 1 ELSE nnext
          /\ thr' = [thr EXCEPT
                       ![t].pc = IF o.op = "InvokeAll" THEN "iter" ELSE "out",
                       ![t].node = IF o.op = "InvokeAll"
                                   THEN Head0(m_delegates) ELSE 0,
                       ![t].empty = (o.op = "Empty" /\ Empty(m_delegates))]
    /\ UNCHANGED <<pass, m_lock, coreVars, marshalVars, outerVars>>

\* One round of the loop of MulticastDelegate::operator(): (*delegate)(p1)
\* enters the entry's target function.
SafeIterate(t) ==
    /\ thr[t].pc = "iter"
    /\ thr[t].node # 0
    /\ thr' = [thr EXCEPT ![t].pc = "handler"]
    /\ UNCHANGED <<m_delegates, heap, nnext, pass, m_lock, coreVars, marshalVars, outerVars>>

\* The target function returns (for a blocking delegate: after its wait);
\* node = node->Next.
SafeHandlerReturn(t) ==
    /\ thr[t].pc = "handler"
    /\ thr' = [thr EXCEPT ![t].pc = "iter",
                          ![t].node = SuccOf(m_delegates,
                                             PosOf(m_delegates, thr[t].node))]
    /\ UNCHANGED <<m_delegates, heap, nnext, pass, m_lock, coreVars, marshalVars, outerVars>>

\* node == 0: the loop ends.
SafeIterateEnd(t) ==
    /\ thr[t].pc = "iter"
    /\ thr[t].node = 0
    /\ thr' = [thr EXCEPT ![t].pc = "out"]
    /\ UNCHANGED <<m_delegates, heap, nnext, pass, m_lock, coreVars, marshalVars, outerVars>>

\* The operation returns; LockGuard's destructor releases the lock.
SafeLeave(t) ==
    /\ thr[t].pc = "out"
    /\ m_lock' = IF m_lock = t THEN "none" ELSE m_lock
    /\ thr' = [thr EXCEPT ![t] = NoOp]
    /\ UNCHANGED <<m_delegates, heap, nnext, pass, coreVars, marshalVars, outerVars>>

SafeNext ==
    \/ \E t \in Threads, op \in SafeOps, w \in Handlers \cup {"none"} :
          SafeEnter(t, op, w)
    \/ \E t \in Threads : SafeBody(t)
    \/ \E t \in Threads : SafeIterate(t)
    \/ \E t \in Threads : SafeHandlerReturn(t)
    \/ \E t \in Threads : SafeIterateEnd(t)
    \/ \E t \in Threads : SafeLeave(t)

SafeSpec == RegInit /\ [][SafeNext]_vars

\* C20: Add, Remove, InvokeAll, Empty and Clear of the thread-safe registry
\* exclude one another: a thread inside any of them owns the registry lock
\* from its first to its last step, so no two threads are ever inside an
\* operation of the same registry at once.
C20_OperationsMutuallyExclusive ==
    /\ \A t \in Threads : InOp(t) => m_lock = t
    /\ \A t, u \in Threads : (InOp(t) /\ InOp(u)) => t = u

C20_Witness ==
    /\ thr["t1"].op = "InvokeAll" /\ thr["t1"].pc = "iter"
    /\ Len(m_delegates) >= 2
    /\ thr["t1"].node = m_delegates[2]
    /\ m_lock = "t1"
    /\ ~InOp("t2")

\* C21 as stated: the thread-safe registry does not hold its lock while a
\* target function called by InvokeAll is executing, so another thread's
\* Add, Remove, Empty or Clear need not wait for that function to return.
C21_HandlersRunWithoutLock ==
    \A t \in Threads : thr[t].pc = "handler" => m_lock # t

\* What Clear() must have done, stated on the states before and after.
ClearPost ==
    /\ m_delegates' = <<>>
    /\ \A n \in Nodes :
          IF InList(m_delegates, n)
          THEN heap[n].frees = 0 /\ heap'[n].frees = 1 /\ heap'[n].freed
          ELSE heap'[n] = heap[n]
    /\ m_delegates = <<>> => UNCHANGED vars

\* C22: Clear() frees every entry the registry owns exactly once and leaves
\* no entry; on a registry without entries it frees nothing and changes
\* nothing; no entry is ever freed twice.
C22_ClearFreesEachOnceIdempotent ==
    /\ [][Clear => ClearPost]_vars
    /\ [](\A n \in Nodes : heap[n].frees <= 1)

C22_Witness ==
    /\ m_delegates = <<>>
    /\ pass = NoPass
    /\ \E n, m \in Nodes : /\ n # m
                           /\ heap[n].by = "clear" /\ heap[n].frees = 1
                           /\ heap[m].by = "clear" /\ heap[m].frees = 1

\* The entries currently registered: cloned and not yet freed.
Registered == {n \in Nodes : heap[n].target # "none" /\ ~heap[n].freed}

Ends == "ends"

Endl == "nl"

DigitChar == <<"0", "1", "2", "3", "4", "5", "6", "7", "8", "9">>

IsDigit(c) == \E d \in 1..10 : DigitChar[d] = c

DigitVal(c) == (CHOOSE d \in 1..10 : DigitChar[d] = c) - 1

IsSpace(c) == c = Endl

\* operator<<(int): the decimal text of n, most significant digit first.
RECURSIVE FormatInt(_)
FormatInt(n) ==
    IF n < 10 THEN <<DigitChar[n + 1]>>
    ELSE FormatInt(n \div 10) \o <<DigitChar[(n % 10) + 1]>>

\* The position after the white space that starts at position g.
RECURSIVE SkipWs(_, _)
SkipWs(b, g) ==
    IF g < Len(b) /\ IsSpace(b[g + 1]) THEN SkipWs(b, g + 1) ELSE g

\* The position after the digits that start at position g.
RECURSIVE DigitsEnd(_, _)
DigitsEnd(b, g) ==
    IF g < Len(b) /\ IsDigit(b[g + 1]) THEN DigitsEnd(b, g + 1) ELSE g

\* The number written by the digits b[i+1..j].
RECURSIVE ValueOf(_, _, _)
ValueOf(b, i, j) ==
    IF j <= i THEN 0 ELSE 10 * ValueOf(b, i, j - 1) + DigitVal(b[j])

Good(s) == ~s.fail /\ ~s.eof

\* operator>>(int&) on stream s into a variable that holds old: the stream
\* afterwards and the variable afterwards.  A stream that is not good() sets
\* failbit and leaves the variable alone; so does white space up to the end.
\* Characters that are no number set failbit and store zero.
ExtractInt(s, old) ==
    IF ~Good(s) THEN [s |-> [s EXCEPT !.fail = TRUE], v |-> old]
    ELSE LET g1 == SkipWs(s.buf, s.g)
             g2 == DigitsEnd(s.buf, g1)
         IN  IF g1 = Len(s.buf)
             THEN [s |-> [s EXCEPT !.g = g1, !.fail = TRUE, !.eof = TRUE],
                   v |-> old]
             ELSE IF g2 = g1
             THEN [s |-> [s EXCEPT !.g = g1, !.fail = TRUE], v |-> 0]
             ELSE [s |-> [s EXCEPT !.g = g2, !.eof = (g2 = Len(s.buf))],
                   v |-> ValueOf(s.buf, g1, g2)]

\* operator<<: appends the characters unless the stream is not good().
Put(s, chars) ==
    IF Good(s) THEN [s EXCEPT !.buf = @ \o chars]
    ELSE [s EXCEPT !.fail = TRUE]

\* tellg(): -1, with failbit set, on a stream that is not good().
Tellg(s) ==
    IF Good(s) THEN [s |-> s, pos |-> s.g]
    ELSE [s |-> [s EXCEPT !.fail = TRUE], pos |-> -1]

\* seekg(pos): clears eofbit, then moves unless the stream has failed; a
\* position outside the buffer sets failbit.
Seekg(s, pos) ==
    IF s.fail THEN [s EXCEPT !.eof = FALSE]
    ELSE IF pos < 0 \/ pos > Len(s.buf)
    THEN [s EXCEPT !.eof = FALSE, !.fail = TRUE]
    ELSE [s EXCEPT !.eof = FALSE, !.g = pos]

\* stream.seekg(stream.tellg() + std::streampos(1))
SkipOne(s) == LET t == Tellg(s) IN Seekg(t.s, t.pos + 1)

\* ---- Wrapper equality -----------------------------------------------------
Funcs == {0, 1, 2}

Objects == {0, 1, 2}

DelegateThreads == {1, 2}

DelegateIds == {1, 2}

Transports == {1, 2}

FreeVariants == {"Free", "FreeAsync", "FreeAsyncWait", "FreeRemoteRecv"}

MemberVariants == {"Member", "MemberAsync", "MemberAsyncWait",
                   "MemberRemoteRecv"}

SpVariants == {"MemberSp", "MemberSpAsync"}

AsyncVariants == {"FreeAsync", "MemberAsync", "MemberSpAsync"}

AsyncWaitVariants == {"FreeAsyncWait", "MemberAsyncWait"}

RecvVariants == {"FreeRemoteRecv", "MemberRemoteRecv"}

Variants == FreeVariants \cup MemberVariants \cup SpVariants \cup {"RemoteSend"}

\* The wrapper class a variant derives from.
BaseType(v) ==
    IF v \in FreeVariants \ {"Free"} THEN "Free"
    ELSE IF v \in MemberVariants \ {"Member"} THEN "Member"
    ELSE IF v = "MemberSpAsync" THEN "MemberSp"
    ELSE "Delegate"

DynamicCastExact(to, from) == from = to

\* dynamic_cast<const ClassType*>(&rhs) is non-null: rhs is a ClassType or
\* an object of a class derived from ClassType.
DynamicCast(to, from) == from = to \/ BaseType(from) = to

\* The wrappers that can be constructed at address a.
WrappersAt(a) ==
    {[NoWrapper EXCEPT !.variant = v, !.m_func = f, !.addr = a] :
        v \in {"Free"}, f \in Funcs}
    \cup {[NoWrapper EXCEPT !.variant = v, !.m_func = f, !.m_object = o,
                            !.addr = a] :
        v \in {"Member", "MemberSp"}, f \in Funcs, o \in Objects}
    \cup {[NoWrapper EXCEPT !.variant = v, !.m_func = f, !.m_thread = t,
                            !.addr = a] :
        v \in {"FreeAsync", "FreeAsyncWait"}, f \in Funcs,
        t \in DelegateThreads}
    \cup {[NoWrapper EXCEPT !.variant = v, !.m_func = f, !.m_object = o,
                            !.m_thread = t, !.addr = a] :
        v \in {"MemberAsync", "MemberAsyncWait", "MemberSpAsync"},
        f \in Funcs, o \in Objects, t \in DelegateThreads}
    \cup {[NoWrapper EXCEPT !.variant = v, !.m_func = f, !.m_id = i,
                            !.addr = a] :
        v \in {"FreeRemoteRecv"}, f \in Funcs, i \in DelegateIds}
    \cup {[NoWrapper EXCEPT !.variant = v, !.m_func = f, !.m_object = o,
                            !.m_id = i, !.addr = a] :
        v \in {"MemberRemoteRecv"}, f \in Funcs, o \in Objects,
        i \in DelegateIds}
    \cup {[NoWrapper EXCEPT !.variant = v, !.m_id = i, !.m_transport = x,
                            !.addr = a] :
        v \in {"RemoteSend"}, i \in DelegateIds, x \in Transports}

\* Clone(): new ClassType(*this), a copy of every member at a new address.
CloneDefault(w, a) == [NoWrapper EXCEPT !.variant = w.variant, !.addr = a]

CloneShared(w, a) == w

Clone(w, a) == [w EXCEPT !.addr = a]

FreeEquals(a, b) ==
    DynamicCast("Free", b.variant) /\ a.m_func = b.m_func

MemberEqualsFuncOnly(a, b) ==
    DynamicCast("Member", b.variant) /\ a.m_func = b.m_func

MemberEquals(a, b) ==
    /\ DynamicCast("Member", b.variant)
    /\ a.m_func = b.m_func
    /\ a.m_object = b.m_object

MemberSpEquals(a, b) ==
    /\ DynamicCast("MemberSp", b.variant)
    /\ a.m_func = b.m_func
    /\ a.m_object = b.m_object

\* BaseType::operator==(rhs) of a derived wrapper.
BaseEquals(a, b) ==
    IF BaseType(a.variant) = "Free" THEN FreeEquals(a, b)
    ELSE IF BaseType(a.variant) = "Member" THEN MemberEquals(a, b)
    ELSE MemberSpEquals(a, b)

\* a == b, by the operator== of a's class.
Equals(a, b) ==
    IF a.variant = "Free" THEN FreeEquals(a, b)
    ELSE IF a.variant = "Member" THEN MemberEquals(a, b)
    ELSE IF a.variant = "MemberSp" THEN MemberSpEquals(a, b)
    ELSE IF a.variant \in AsyncVariants \cup AsyncWaitVariants
    THEN /\ DynamicCast(a.variant, b.variant)
         /\ a.m_thread = b.m_thread
         /\ BaseEquals(a, b)
    ELSE IF a.variant \in RecvVariants
    THEN /\ DynamicCast(a.variant, b.variant)
         /\ a.m_id = b.m_id
         /\ BaseEquals(a, b)
    ELSE /\ DynamicCast(a.variant, b.variant)
         /\ a.m_id = b.m_id
         /\ a.m_transport = b.m_transport

\* Empty() of the wrapper; DelegateRemoteSend binds no target and has none.
WrapperEmpty(w) ==
    IF w.variant \in FreeVariants THEN ~(w.m_func # 0)
    ELSE IF w.variant \in MemberVariants \cup SpVariants
    THEN ~(w.m_object # 0 /\ w.m_func # 0)
    ELSE FALSE

\* What the synchronous operator() of the wrapper's base class can do: call
\* the target, return RetType(), or call through a null method pointer, which
\* is undefined and either crashes or runs code that is not the target.
OperatorCall(w) ==
    IF w.variant \in FreeVariants
    THEN IF w.m_func # 0 THEN {"target"} ELSE {"default"}
    ELSE IF w.m_object # 0
         THEN IF w.m_func # 0 THEN {"target"} ELSE {"crash", "wild"}
         ELSE {"default"}

\* The streams a remote receiver can be handed.
Messages ==
    {<<>>, <<"x">>, <<"1", Ends, "7", Ends>>, <<"2", Ends, "7", Ends>>,
     <<"1", "2", Ends>>}

WrapInit ==
    /\ CoreIdle
    /\ MarshalIdle
    /\ RegIdle
    /\ RemoteIdle
    /\ UnitIdle
    /\ lhs \in WrappersAt(1)
    /\ rhs \in WrappersAt(2) \cup {Clone(lhs, 2)}
    /\ last = NoCall

Operand(who) == IF who = "lhs" THEN lhs ELSE rhs

Assign(who, w) ==
    IF who = "lhs" THEN lhs' = w /\ rhs' = rhs ELSE rhs' = w /\ lhs' = lhs

\* operator() of a synchronous wrapper, and of a remote receiver called
\* directly (it inherits the synchronous operator()).
InvokeSync(who) ==
    /\ Operand(who).variant \in {"Free", "Member", "MemberSp"} \cup RecvVariants
    /\ \E out \in OperatorCall(Operand(who)) :
          last' = [who |-> who, how |-> "sync",
                   empty |-> WrapperEmpty(Operand(who)), outcome |-> out]
    /\ UNCHANGED <<lhs, rhs, remoteVars, coreVars, marshalVars, regVars, unitVars>>

\* operator() of a fire-and-forget wrapper followed by the target thread's
\* DelegateInvoke on the clone, which runs BaseType::operator().
InvokeAsync(who) ==
    /\ Operand(who).variant \in AsyncVariants
    /\ \E out \in OperatorCall(Operand(who)) :
          last' = [who |-> who, how |-> "async",
                   empty |-> WrapperEmpty(Operand(who)), outcome |-> out]
    /\ UNCHANGED <<lhs, rhs, remoteVars, coreVars, marshalVars, regVars, unitVars>>

\* operator() of a blocking wrapper: the wait succeeds or times out and the
\* result is stored in the wrapper's m_success.
InvokeAsyncWait(who, ok) ==
    /\ Operand(who).variant \in AsyncWaitVariants
    /\ Assign(who, [Operand(who) EXCEPT !.m_success = ok])
    /\ \E out \in OperatorCall(Operand(who)) :
          last' = [who |-> who, how |-> IF ok THEN "wait" ELSE "timeout",
                   empty |-> WrapperEmpty(Operand(who)), outcome |-> out]
    /\ UNCHANGED <<remoteVars, coreVars, marshalVars, regVars, unitVars>>

\* DelegateInvoke(stream) of a remote receiver: reads the id of the message
\* into m_id, then calls BaseType::operator() with what it parsed.
DelegateInvoke(who, b) ==
    /\ Operand(who).variant \in RecvVariants
    /\ Assign(who, [Operand(who) EXCEPT
                       !.m_id = ExtractInt(NewStream(b), @).v])
    /\ \E out \in OperatorCall(Operand(who)) :
          last' = [who |-> who, how |-> "remote",
                   empty |-> WrapperEmpty(Operand(who)), outcome |-> out]
    /\ UNCHANGED <<remoteVars, coreVars, marshalVars, regVars, unitVars>>

\* operator() of a remote sender: it calls no target of its own.
InvokeSend(who) ==
    /\ Operand(who).variant = "RemoteSend"
    /\ last' = [who |-> who, how |-> "send", empty |-> FALSE,
                outcome |-> "sent"]
    /\ UNCHANGED <<lhs, rhs, remoteVars, coreVars, marshalVars, regVars, unitVars>>

WrapNext ==
    \E who \in {"lhs", "rhs"} :
        \/ InvokeSync(who)
        \/ InvokeAsync(who)
        \/ \E ok \in BOOLEAN : InvokeAsyncWait(who, ok)
        \/ \E b \in Messages : DelegateInvoke(who, b)
        \/ InvokeSend(who)

WrapSpec == WrapInit /\ [][WrapNext]_vars

\* The target a wrapper is bound to: its function, or its object and method.
Target(w) == <<w.m_object, w.m_func>>

\* What, besides the target, the wrapper's class makes part of its identity:
\* the destination thread, the delegate id, the transport.
Route(w) == <<w.m_thread, w.m_id, w.m_transport>>

Bound(w) == ~WrapperEmpty(w)

\* An address no wrapper of the model occupies: where a further clone goes.
FreshAddr == CHOOSE a \in 1..3 : a \notin {lhs.addr, rhs.addr}

CloneIsEqualCopy(w) ==
    Bound(w) => Clone(w, FreshAddr).addr # w.addr /\ Equals(Clone(w, FreshAddr), w)

DifferentTargetsDiffer(a, b) ==
    (Bound(a) /\ Bound(b) /\ Target(a) # Target(b)) => ~Equals(a, b)

C25_EqualIffSameVariantSameTarget ==
    /\ Equals(lhs, rhs) <=>
          (lhs.variant = rhs.variant /\ Target(lhs) = Target(rhs))
    /\ Equals(rhs, lhs) <=>
          (lhs.variant = rhs.variant /\ Target(lhs) = Target(rhs))

\* C26 as stated: no invocation of a or b (synchronous, fire-and-forget,
\* blocking with success or timeout, or a received remote message) changes
\* the result of a == b.
C26_EqualityIgnoresCallHistory ==
    [][/\ Equals(lhs', rhs') <=> Equals(lhs, rhs)
       /\ Equals(rhs', lhs') <=> Equals(rhs, lhs)]_vars

\* C30 as stated: invoking a wrapper whose Empty() is true calls no target
\* function and returns a default-constructed RetType.
C30_UnboundInvokeReturnsDefault ==
    (last.who # "none" /\ last.empty) => last.outcome = "default"

\* ---- Remote envelope ------------------------------------------------------
MaxMsgs == 2

Ints == {0, 11, 22}

\* The parameter lists the sender and receiver are instantiated with: int
\* and the RemoteData class of main.cpp, one or two parameters.
Signatures ==
    {<<"int">>, <<"int", "int">>, <<"RemoteData">>,
     <<"RemoteData", "int">>, <<"int", "RemoteData">>}

\* A value is the sequence of its integers: <<n>> for an int, <<m_x, m_y>>
\* for a RemoteData.
ValuesOf(type) ==
    IF type = "int" THEN {<<n>> : n \in Ints}
    ELSE {<<x, y>> : x \in Ints, y \in Ints}

ArgTuples(ps) ==
    IF Len(ps) = 1 THEN {<<v>> : v \in ValuesOf(ps[1])}
    ELSE {<<v, w>> : v \in ValuesOf(ps[1]), w \in ValuesOf(ps[2])}

\* What operator<< writes for one argument; RemoteData writes each member
\* followed by std::endl.
Format(type, v) ==
    IF type = "int" THEN FormatInt(v[1])
    ELSE FormatInt(v[1]) \o <<Endl>> \o FormatInt(v[2]) \o <<Endl>>

\* What the receiver's RemoteParam<Param> holds before parsing: an int is
\* not initialized, a RemoteData is default-constructed.
InitVals(type) == IF type = "int" THEN ValuesOf("int") ELSE {<<0, 0>>}

InitTuples(ps) ==
    IF Len(ps) = 1 THEN {<<v>> : v \in InitVals(ps[1])}
    ELSE {<<v, w>> : v \in InitVals(ps[1]), w \in InitVals(ps[2])}

\* The wire format: id, sentinel, then each argument followed by the sentinel.
RECURSIVE EnvelopeArgs(_, _)
EnvelopeArgs(ps, args) ==
    IF ps = <<>> THEN <<>>
    ELSE Format(Head(ps), Head(args)) \o <<Ends>>
            \o EnvelopeArgs(Tail(ps), Tail(args))

Envelope(id, ps, args) == FormatInt(id) \o <<Ends>> \o EnvelopeArgs(ps, args)

\* What DelegateRemoteSend::operator() leaves in its stream.
SendWrites(s, id, ps, args) ==
    LET s0 == Put(Put(s, FormatInt(id)), <<Ends>>)
        s1 == Put(Put(s0, Format(ps[1], args[1])), <<Ends>>)
    IN  IF Len(ps) = 1 THEN s1
        ELSE Put(Put(s1, Format(ps[2], args[2])), <<Ends>>)

\* The characters of the stream that have not been read.
Unread(s) == SubSeq(s.buf, s.g + 1, Len(s.buf))

\* stream >> p for one parameter.
ParseOne(s, type, init) ==
    IF type = "int"
    THEN LET e == ExtractInt(s, init[1]) IN [s |-> e.s, v |-> <<e.v>>]
    ELSE LET e1 == ExtractInt(s, init[1])
             e2 == ExtractInt(e1.s, init[2])
         IN  [s |-> e2.s, v |-> <<e1.v, e2.v>>]

\* DelegateMemberRemoteRecv::DelegateInvoke up to the call of the target:
\* the stream afterwards, the id read, the arguments the target is called
\* with, and whether every extraction succeeded.
RecvParse(s, id, ps, inits) ==
    LET e0 == ExtractInt(s, id)
        p1 == ParseOne(SkipOne(e0.s), ps[1], inits[1])
        p2 == ParseOne(SkipOne(p1.s), ps[2], inits[2])
    IN  IF Len(ps) = 1
        THEN [s |-> SkipOne(p1.s), id |-> e0.v, args |-> <<p1.v>>,
              ok |-> ~p1.s.fail]
        ELSE [s |-> SkipOne(p2.s), id |-> e0.v, args |-> <<p1.v, p2.v>>,
              ok |-> ~p2.s.fail]

\* DelegateRemoteInvoker::Invoke reads the id at the front of the stream and
\* puts the stream back where the message starts; the id it found.
PeekId(s) ==
    LET e == ExtractInt(s, 0) IN [s |-> Seekg(e.s, s.g), id |-> e.v]

\* DelegateRemoteInvoker::Invoke(stream): the receiver registered under the
\* id of the message, if there is one, runs DelegateInvoke(stream).  The
\* stream, the receiver's m_id and the target's invocations afterwards.
RemoteInvoke(s, inits) ==
    LET pk == PeekId(s)
        r == RecvParse(pk.s, m_id, remote.types, inits)
    IN  IF pk.id = remote.id
        THEN [s |-> r.s, m_id |-> r.id,
              calls |-> Append(calls, [args |-> r.args, ok |-> r.ok])]
        ELSE [s |-> pk.s, m_id |-> m_id, calls |-> calls]

RemoteInit ==
    /\ CoreIdle
    /\ MarshalIdle
    /\ RegIdle
    /\ WrapIdle
    /\ UnitIdle
    /\ remote \in [types : Signatures, id : DelegateIds]
    /\ m_stream = NewStream(<<>>)
    /\ handed = <<>>
    /\ m_id = remote.id
    /\ calls = <<>>

\* sendData(args): DelegateRemoteSend::operator() writes the message into
\* its stream and gives the stream to the transport, which (DelegateSend in
\* main.cpp) reads nothing from it.
Send(args) ==
    /\ Len(handed) < MaxMsgs
    /\ m_stream' = SendWrites(m_stream, remote.id, remote.types, args)
    /\ handed' = Append(handed, [args |-> args, buf |-> Unread(m_stream')])
    /\ UNCHANGED <<remote, m_id, calls, wrapVars, coreVars, marshalVars, regVars, unitVars>>

\* DelegateRemoteInvoker::Invoke(ss) on the stream the sender wrote.
Receive ==
    /\ \E inits \in InitTuples(remote.types) :
          LET r == RemoteInvoke(m_stream, inits)
          IN  m_stream' = r.s /\ m_id' = r.m_id /\ calls' = r.calls
    /\ UNCHANGED <<remote, handed, wrapVars, coreVars, marshalVars, regVars, unitVars>>

RemoteNext ==
    \/ \E args \in ArgTuples(remote.types) : Send(args)
    \/ Receive

RemoteSpec == RemoteInit /\ [][RemoteNext]_vars

C28_EachSendHandsOneEnvelope ==
    \A k \in 1..Len(handed) :
        handed[k].buf = Envelope(remote.id, remote.types, handed[k].args)

\* ---- Remote receiver and malformed messages -------------------------------
\* The argument tuples of the messages that arrive: every int is 11 or 22,
\* every RemoteData is (11, 22).
Arriving(ps) ==
    {a \in ArgTuples(ps) :
        \A k \in 1..Len(ps) : a[k] \in {<<11>>, <<22>>, <<11, 22>>}}

\* The messages a sender with the receiver's id and parameter types writes.
WellFormed == {Envelope(remote.id, remote.types, a) : a \in Arriving(remote.types)}

\* A message cut short: tokens are missing.
Truncated == {SubSeq(e, 1, n) : e \in WellFormed, n \in 1..4}

\* A message in which one character after the id is no digit: the token
\* does not have the declared type.
Garbled == {[e EXCEPT ![n] = "x"] : e \in WellFormed, n \in 3..4}

Inbox == WellFormed \cup Truncated \cup Garbled

\* A message arrives from the transport in a stream of its own and
\* DelegateRemoteInvoker::Invoke is called on it.
Deliver(b) ==
    /\ Len(calls) < MaxMsgs
    /\ \E inits \in InitTuples(remote.types) :
          LET r == RemoteInvoke(NewStream(b), inits)
          IN  m_id' = r.m_id /\ calls' = r.calls
    /\ UNCHANGED <<remote, m_stream, handed, wrapVars, coreVars, marshalVars, regVars, unitVars>>

RecvNext == \E b \in Inbox : Deliver(b)

RecvSpec == RemoteInit /\ [][RecvNext]_vars

\* C29 as stated: a message the receiver cannot parse as its parameter list
\* does not invoke the bound target at all, and a later well-formed message
\* for the same receiver is parsed and invoked with the values it carries.
C29_UnparsedMessageNotInvoked ==
    /\ [](\A k \in 1..Len(calls) : calls[k].ok)
    /\ [][\A a \in Arriving(remote.types) :
            Deliver(Envelope(remote.id, remote.types, a))
               => calls' = Append(calls, [args |-> a, ok |-> TRUE])]_vars

\* ---- the liveness counter of a blocking call ------------------------------
\* The counter, the queue and the frees do not depend on the values passed:
\* the same operations with one argument value and one initial m_retVal.
CountSpec == LiveInit /\ [][LiveNext]_vars

\* The decrements each side has made on the clone of envelope i: the waiter
\* has made its one as soon as it is past the locked block of operator(),
\* the target thread as soon as it is past the one of DelegateInvoke.
WaiterDecs(i) ==
    IF cur[env[i].caller] = i /\ pc[env[i].caller] \in {"wait", "lock"}
    THEN 0 ELSE 1

TargetDecs(i) == IF env[i].tpc \in {"del", "done"} THEN 1 ELSE 0

\* C31: the liveness counter of the clone of a blocking call is 2, 1 or 0:
\* it is 2 from before the envelope is enqueued, it is 2 less the decrements
\* made so far, of which each side makes at most one, the target thread's
\* while it holds the clone's lock, and the side that deletes found it 0.
C31_RefCountTwoOneZero ==
    \A i \in Ids : IsWait(i) =>
        /\ env[i].refCnt \in {0, 1, 2}
        /\ env[i].refCnt = 2 - WaiterDecs(i) - TargetDecs(i)
        /\ (InQueue(i) /\ WaiterDecs(i) = 0) => env[i].refCnt = 2
        /\ env[i].tpc \in {"running", "dec"} => env[i].lock = "target"
        /\ (env[i].tpc = "del" \/ (cur[env[i].caller] = i
                                     /\ pc[env[i].caller] = "del"))
              => env[i].refCnt = 0

C31_Witness ==
    \E i, j \in Ids :
        /\ IsWait(i) /\ env[i].refCnt = 1 /\ WaiterDecs(i) = 1 /\ InQueue(i)
        /\ IsWait(j) /\ env[j].refCnt = 0 /\ env[j].tpc = "done"

\* ---- DelegateInvoke does not dispatch ------------------------------------
DispatchMsgsIn(q) == {k \in 1..Len(q) : q[k].msg = "WM_DISPATCH_DELEGATE"}

\* C32: processing an envelope does not extend the target thread's queue:
\* an envelope is in the queue exactly until it is dequeued, at most once,
\* the envelopes in the queue and the dequeued ones are together the ones
\* the callers enqueued, and an envelope whose target function has been
\* called is not in the queue.
C32_InvokeDoesNotEnqueue ==
    /\ Cardinality(DispatchMsgsIn(queue)) + Len(dispatchLog) = Len(enqLog)
    /\ \A i \in Ids : env[i].kind # "none" =>
          /\ InQueue(i) <=> env[i].tpc = "queued"
          /\ Cardinality({k \in 1..Len(queue) : queue[k] = DispatchMsg(i)})
                <= 1
          /\ env[i].invoked >= 1 => ~InQueue(i)

C32_Witness ==
    /\ queue = <<>>
    /\ \E i, j \in Ids :
          /\ env[i].kind = "async" /\ env[i].invoked = 1
          /\ env[i].tpc = "done"
          /\ env[j].kind = "wait" /\ env[j].invoked = 1
          /\ env[j].tpc = "running"

\* ---- the clone an envelope or a registry entry holds ----------------------
\* lhs is the caller's wrapper and rhs the clone made from it by operator()
\* (held by the message) or by operator+= (held by the registry).  A write
\* to a wrapper object reaches whatever is at its address.
HeldVariants == AsyncVariants \cup {"Free", "Member"}

WriteOriginal(w) ==
    /\ lhs' = w
    /\ rhs' = IF rhs # NoWrapper /\ rhs.addr = lhs.addr THEN w ELSE rhs
    /\ snap' = [snap EXCEPT !.changed = @ \/ snap.how \in {"call", "add"}]

HeldInit ==
    /\ CoreIdle
    /\ MarshalIdle
    /\ RegIdle
    /\ RemoteIdle
    /\ UnitIdle
    /\ lhs \in {w \in WrappersAt(1) : w.variant \in HeldVariants /\ Bound(w)}
    /\ rhs = NoWrapper
    /\ last = NoCall

\* operator() of a fire-and-forget wrapper with a thread: Clone(), a message
\* holding the clone, DispatchDelegate(msg).
FireAndForget ==
    /\ lhs.variant \in AsyncVariants
    /\ lhs.m_thread # 0
    /\ Bound(lhs)
    /\ rhs = NoWrapper
    /\ rhs' = Clone(lhs, 2)
    /\ snap' = [how |-> "call", target |-> Target(lhs),
                thread |-> lhs.m_thread, changed |-> FALSE]
    /\ UNCHANGED <<lhs, last, remoteVars, coreVars, marshalVars,
                   regVars, m_delegate, owned, m_signaled, waiters, sema>>

\* m_delegates.push_back(delegate.Clone())
HeldAdd ==
    /\ lhs.variant # "none"
    /\ Bound(lhs)
    /\ rhs = NoWrapper
    /\ rhs' = Clone(lhs, 2)
    /\ snap' = [how |-> "add", target |-> Target(lhs),
                thread |-> lhs.m_thread, changed |-> FALSE]
    /\ UNCHANGED <<lhs, last, remoteVars, coreVars, marshalVars,
                   regVars, m_delegate, owned, m_signaled, waiters, sema>>

\* Clear() { m_object = 0; m_func = 0; } on the caller's wrapper.
ClearOriginal ==
    /\ lhs.variant # "none"
    /\ WriteOriginal([lhs EXCEPT !.m_object = 0, !.m_func = 0])
    /\ UNCHANGED <<last, remoteVars, coreVars, marshalVars,
                   regVars, m_delegate, owned, m_signaled, waiters, sema>>

\* Bind(object, func) / Bind(func) on the caller's wrapper.
Rebind(o, f) ==
    /\ lhs.variant # "none"
    /\ WriteOriginal([lhs EXCEPT
                        !.m_object = IF lhs.variant \in FreeVariants
                                     THEN 0 ELSE o,
                        !.m_func = f])
    /\ UNCHANGED <<last, remoteVars, coreVars, marshalVars,
                   regVars, m_delegate, owned, m_signaled, waiters, sema>>

\* The caller's wrapper goes out of scope.
DestroyOriginal ==
    /\ lhs.variant # "none"
    /\ WriteOriginal(NoWrapper)
    /\ UNCHANGED <<last, remoteVars, coreVars, marshalVars,
                   regVars, m_delegate, owned, m_signaled, waiters, sema>>

\* The target thread's DelegateInvoke on the clone of the message, which is
\* then released, or the registry's invocation of its entry, which stays.
InvokeHeld ==
    /\ snap.how \in {"call", "add"}
    /\ \E out \in (IF rhs = NoWrapper THEN {"crash", "wild"}
                   ELSE OperatorCall(rhs)) :
          last' = [who |-> "rhs", how |-> snap.how,
                   empty |-> WrapperEmpty(rhs), outcome |-> out]
    /\ rhs' = IF snap.how = "call" THEN NoWrapper ELSE rhs
    /\ snap' = IF snap.how = "call" THEN [snap EXCEPT !.how = "invoked"]
               ELSE snap
    /\ UNCHANGED <<lhs, remoteVars, coreVars, marshalVars,
                   regVars, m_delegate, owned, m_signaled, waiters, sema>>

\* registry.Clear(): delete the entry.
HeldRemove ==
    /\ snap.how = "add"
    /\ rhs' = NoWrapper
    /\ snap' = [snap EXCEPT !.how = "removed"]
    /\ UNCHANGED <<lhs, last, remoteVars, coreVars, marshalVars,
                   regVars, m_delegate, owned, m_signaled, waiters, sema>>

HeldNext ==
    \/ FireAndForget
    \/ HeldAdd
    \/ ClearOriginal
    \/ \E o \in Objects, f \in Funcs : Rebind(o, f)
    \/ DestroyOriginal
    \/ InvokeHeld
    \/ HeldRemove

HeldSpec == HeldInit /\ [][HeldNext]_vars

\* C33: while an envelope or a registry entry holds the clone made by a
\* fire-and-forget call or an Add, the clone is an object of its own that
\* still has the target and the thread the caller's wrapper had at the call,
\* whatever Clear(), rebinding or destruction did to that wrapper since, and
\* every invocation through it calls that bound target.
C33_HeldCloneKeepsBinding ==
    /\ snap.how \in {"call", "add"} =>
          /\ rhs # NoWrapper
          /\ rhs.addr # lhs.addr
          /\ Target(rhs) = snap.target
          /\ rhs.m_thread = snap.thread
    /\ last.who = "rhs" => last.outcome = "target" /\ ~last.empty

C33_Witness ==
    /\ snap.how = "invoked"
    /\ snap.changed
    /\ WrapperEmpty(lhs)
    /\ last.how = "call"
    /\ last.outcome = "target"

\* ---- SinglecastDelegate ---------------------------------------------------
SinglecastClearLeaks(d, o) == [m_delegate |-> 0, owned |-> o]

\* Clear() { if (m_delegate) { delete m_delegate; m_delegate = 0; } }
SinglecastClear(d, o) ==
    [m_delegate |-> 0,
     owned |-> IF d # 0 THEN [o EXCEPT ![d].frees = @ + 1] ELSE o]

\* Empty() const { return !m_delegate; }
SinglecastEmpty(d) == d = 0

ClonesMade == {n \in CloneIds : owned[n].made}

SingleInit ==
    /\ CoreIdle
    /\ MarshalIdle
    /\ RegIdle
    /\ OuterIdle

\* operator=(const Delegate&): Clear(); m_delegate = delegate.Clone();
AssignRef(h) ==
    /\ Cardinality(ClonesMade) < MaxClones
    /\ LET c == SinglecastClear(m_delegate, owned)
           n == Cardinality(ClonesMade) + 1
       IN /\ m_delegate' = n
          /\ owned' = [c.owned EXCEPT ![n] = [made |-> TRUE, frees |-> 0,
                                              target |-> h]]
          /\ last' = [who |-> "singlecast", how |-> "assign",
                      empty |-> SinglecastEmpty(n), outcome |-> h]
    /\ UNCHANGED <<lhs, rhs, snap, m_signaled, waiters, sema, remoteVars,
                   coreVars, marshalVars, regVars>>

\* operator=(const Delegate*): Clear(); if (delegate) m_delegate =
\* delegate->Clone();
AssignPtr(p) ==
    /\ p = "null" \/ Cardinality(ClonesMade) < MaxClones
    /\ LET c == SinglecastClear(m_delegate, owned)
           n == Cardinality(ClonesMade) + 1
       IN /\ m_delegate' = IF p # "null" THEN n ELSE c.m_delegate
          /\ owned' = IF p # "null"
                      THEN [c.owned EXCEPT ![n] = [made |-> TRUE, frees |-> 0,
                                                   target |-> p]]
                      ELSE c.owned
          /\ last' = [who |-> "singlecast",
                      how |-> IF p # "null" THEN "assign" ELSE "assignNull",
                      empty |-> SinglecastEmpty(m_delegate'), outcome |-> p]
    /\ UNCHANGED <<lhs, rhs, snap, m_signaled, waiters, sema, remoteVars,
                   coreVars, marshalVars, regVars>>

\* delegateF.Clear()
ClearSinglecast ==
    /\ LET c == SinglecastClear(m_delegate, owned)
       IN /\ m_delegate' = c.m_delegate
          /\ owned' = c.owned
          /\ last' = [who |-> "singlecast", how |-> "clear",
                      empty |-> SinglecastEmpty(c.m_delegate),
                      outcome |-> "none"]
    /\ UNCHANGED <<lhs, rhs, snap, m_signaled, waiters, sema, remoteVars,
                   coreVars, marshalVars, regVars>>

SingleNext ==
    \/ \E h \in Handlers : AssignRef(h)
    \/ \E p \in Handlers \cup {"null"} : AssignPtr(p)
    \/ ClearSinglecast

SingleSpec == SingleInit /\ [][SingleNext]_vars

\* The clones the container made and has not deleted.
LiveClones == {n \in ClonesMade : owned[n].frees = 0}

\* C34: a SinglecastDelegate owns at most one clone: the clones it made are
\* all deleted exactly once except the one it holds; after an assignment of
\* a wrapper it holds a new clone of that wrapper, after the assignment of a
\* null pointer or Clear() it holds none; Empty() is true exactly when no
\* clone is held.
C34_SinglecastOwnsAtMostOne ==
    /\ Cardinality(LiveClones) <= 1
    /\ LiveClones = IF m_delegate = 0 THEN {} ELSE {m_delegate}
    /\ \A n \in ClonesMade : owned[n].frees = IF n = m_delegate THEN 0 ELSE 1
    /\ last.how = "assign" =>
          /\ m_delegate = Cardinality(ClonesMade)
          /\ owned[m_delegate].target = last.outcome
    /\ last.how \in {"assignNull", "clear"} => m_delegate = 0
    /\ last.who = "singlecast" => last.empty = SinglecastEmpty(m_delegate)
    /\ SinglecastEmpty(m_delegate) <=> LiveClones = {}

C34_Witness ==
    /\ Cardinality(ClonesMade) = MaxClones
    /\ m_delegate = 0
    /\ last.how = "assignNull"
    /\ \A n \in ClonesMade : owned[n].frees = 1

\* ---- the blocking call after the clone is freed ---------------------------
\* The clone or the message of envelope i has been deleted.
IsFreed(i) == env[i].cloneFreed >= 1 \/ env[i].msgFreed >= 1

\* The waiter of envelope i is still inside operator(): it will wait on the
\* clone's semaphore, read its m_retVal, take its lock or delete it.
WaiterInside(i) ==
    cur[env[i].caller] = i /\ pc[env[i].caller] \in {"wait", "lock", "del"}

\* The target thread has yet to read the message of envelope i or is inside
\* DelegateInvoke on its clone.
TargetPending(i) ==
    InQueue(i) \/ env[i].tpc \in {"queued", "running", "dec", "del"}

\* C35: once the clone and message of a blocking call are freed neither side
\* touches them again: the waiter has left operator(), the envelope is out of
\* the queue and the target thread has left DelegateInvoke, whichever of the
\* two freed them and however timeout and completion interleaved.
C35_NoAccessAfterFree ==
    \A i \in Ids : (IsWait(i) /\ IsFreed(i)) =>
        /\ ~WaiterInside(i)
        /\ ~TargetPending(i)
        /\ env[i].lock = "free"

C35_Witness ==
    \E i, j \in Ids :
        /\ IsWait(i) /\ IsFreed(i) /\ env[i].entryRef = 1
        /\ env[i].invoked = 0
        /\ IsWait(j) /\ IsFreed(j) /\ env[j].entryRef = 2
        /\ env[j].wres = "timeout"

\* C36: the target function of a blocking call runs at most once, and while
\* it runs the caller is still inside operator() and has not decremented the
\* liveness counter, so the arguments the message refers to are alive; once
\* the caller has returned the function is neither running nor started.
C36_TargetRunsOnlyInsideCall ==
    \A i \in Ids : IsWait(i) =>
        /\ env[i].invoked <= 1
        /\ env[i].tpc = "running" =>
              /\ cur[env[i].caller] = i
              /\ pc[env[i].caller] \in {"wait", "lock"}
              /\ env[i].refCnt = 2
              /\ env[i].invoked = 1
        /\ WaiterDecs(i) = 1 => env[i].tpc # "running"
        /\ ~PastEntry(i) => env[i].invoked = 0
        /\ (PastEntry(i) /\ env[i].entryRef # 2) => env[i].invoked = 0

C36_Witness ==
    \E i \in Ids :
        /\ IsWait(i) /\ env[i].tpc = "running"
        /\ pc[env[i].caller] = "lock" /\ cur[env[i].caller] = i
        /\ env[i].wres = "timeout"

\* ---- a blocking call made from the target thread --------------------------
\* SelfCaller is code the target thread itself runs: the target function of a
\* fire-and-forget envelope it is executing.  OtherCaller is another thread.
SelfCaller == "c1"

OtherCaller == "c2"

\* The target thread is inside the target function of a fire-and-forget
\* envelope.
InHandler == \E j \in Ids : env[j].kind = "async" /\ env[j].tpc = "running"

SelfInit == Init /\ m_retVal = [c \in Callers |-> 0]

\* The function the target thread is executing invokes a blocking wrapper
\* bound to that same thread: m_thread is not 0, so operator() clones, posts
\* the message to the thread's own queue and waits.
SelfCallWait == InHandler /\ CallWait(SelfCaller, 0)

\* The function returns to DelegateInvoke once the call it made has returned.
SelfFuncReturnAsync(j) == pc[SelfCaller] = "idle" /\ FuncReturnAsync(j)

SelfWorkerStep ==
    \/ ProcessDispatch
    \/ \E i \in Ids : FuncReturnWait(i) \/ TargetDec(i) \/ TargetDelete(i)
                      \/ SelfFuncReturnAsync(i)

SelfNext ==
    \/ SelfCallWait
    \/ CallAsync(OtherCaller, 0)
    \/ CallWait(OtherCaller, 0)
    \/ \E c \in Callers, r \in BOOLEAN : WaitEnd(c, r)
    \/ \E c \in Callers : WaiterDec(c)
    \/ \E c \in Callers : WaiterDelete(c)
    \/ ProcessDispatch
    \/ \E i \in Ids : FuncReturnWait(i)
    \/ \E i \in Ids : TargetDec(i)
    \/ \E i \in Ids : TargetDelete(i)
    \/ \E i \in Ids : SelfFuncReturnAsync(i)

\* The thread keeps running its loop and a timed wait ends.
SelfSpec ==
    /\ SelfInit
    /\ [][SelfNext]_vars
    /\ WF_vars(SelfWorkerStep)
    /\ WF_vars(WaiterStep(SelfCaller))

\* Envelope i is of a blocking call the target thread made on itself.
IsSelfCall(i) == IsWait(i) /\ env[i].caller = SelfCaller

\* C37: the target function of a blocking call issued from the target thread
\* itself is never invoked; with a finite timeout the call returns with
\* IsSuccess() false, and its envelope is later dequeued by the same thread,
\* skipped and freed; with WAIT_INFINITE the call never returns.
C37_SelfCallNeverInvoked ==
    /\ [](\A i \in Ids : IsSelfCall(i) => env[i].invoked = 0)
    /\ [](Returned(SelfCaller) =>
             ~m_success[SelfCaller] /\ m_timeout[SelfCaller] # WAIT_INFINITE)
    /\ (pc[SelfCaller] = "wait" /\ m_timeout[SelfCaller] # WAIT_INFINITE)
          ~> Returned(SelfCaller)
    /\ \A i \in Ids :
          (IsSelfCall(i) /\ Returned(SelfCaller))
             ~> (/\ env[i].tpc = "done" /\ env[i].entryRef = 1
                 /\ env[i].invoked = 0 /\ ~InQueue(i)
                 /\ env[i].cloneFreed = 1 /\ env[i].msgFreed = 1)
    /\ [](m_timeout[SelfCaller] = WAIT_INFINITE =>
             [](pc[SelfCaller] = "wait" => [](pc[SelfCaller] = "wait")))

C37_Witness ==
    \E i \in Ids :
        /\ IsSelfCall(i) /\ Returned(SelfCaller)
        /\ env[i].tpc = "done" /\ env[i].entryRef = 1
        /\ env[i].cloneFreed = 1
        /\ ~m_success[SelfCaller]

\* ---- symmetry of operator== ----------------------------------------------
\* registry -= w evaluates w == entry: the argument is the left operand.
RemovesEntry(w, entry) == Equals(w, entry)

\* C38: wrapper equality is symmetric for wrappers of any variants, so the
\* entry registry -= w removes is the same whichever operand's operator==
\* decides.
C38_EqualitySymmetric ==
    /\ Equals(lhs, rhs) <=> Equals(rhs, lhs)
    /\ RemovesEntry(lhs, rhs) <=> Equals(rhs, lhs)

\* ---- Semaphore ------------------------------------------------------------
SemInit ==
    /\ CoreIdle
    /\ MarshalIdle
    /\ RegIdle
    /\ OuterIdle

\* Signal(): { lock; m_signaled = true; } m_sema.notify_one();
SemSignal ==
    /\ sema.signals < MaxSignals
    /\ m_signaled' = Signal(m_signaled)
    /\ sema' = [sema EXCEPT !.signals = @ + 1, !.fresh = @ + 1]
    /\ UNCHANGED <<waiters, snap, m_delegate, owned, wrapVars, remoteVars,
                   coreVars, marshalVars, regVars>>

\* A thread calls Wait(timeout) and takes the lock.
SemWaitBegin(w, t) ==
    /\ waiters[w].pc = "out"
    /\ waiters' = [waiters EXCEPT ![w] =
                     [NoWait EXCEPT !.pc = "in", !.timeout = t,
                                    !.flagAtEntry = m_signaled]]
    /\ UNCHANGED <<m_signaled, sema, snap, m_delegate, owned, wrapVars,
                   remoteVars, coreVars, marshalVars, regVars>>

\* The loop of Wait ends, with the lock held: if (m_signaled) { m_signaled =
\* false; return true; } else return false;
SemWaitEnd(w, res) ==
    /\ waiters[w].pc = "in"
    /\ IF res THEN WaitReturnsTrue(m_signaled)
              ELSE WaitReturnsFalse(m_signaled, waiters[w].timeout)
    /\ waiters' = [waiters EXCEPT ![w].pc = "out",
                                  ![w].res = IF res THEN "true" ELSE "false",
                                  ![w].flagAtReturn = m_signaled]
    /\ m_signaled' = IF res THEN FALSE ELSE m_signaled
    /\ sema' = IF res THEN [sema EXCEPT !.taken = @ + 1, !.fresh = 0]
               ELSE sema
    /\ UNCHANGED <<snap, m_delegate, owned, wrapVars, remoteVars,
                   coreVars, marshalVars, regVars>>

SemNext ==
    \/ SemSignal
    \/ \E w \in Waiters, t \in Timeouts : SemWaitBegin(w, t)
    \/ \E w \in Waiters, r \in BOOLEAN : SemWaitEnd(w, r)

SemSpec == SemInit /\ [][SemNext]_vars

\* C39: the semaphore is a binary sticky signal: the flag is set exactly
\* while a Signal() has occurred since the last successful Wait, whether it
\* came before or during a Wait; a Wait that finds the flag set cannot give
\* up; a successful Wait found the flag set and reset it, so no more Waits
\* succeed than Signals occurred; and a Wait returns false only with a
\* timeout >= 0 and the flag not set when it gave up.
C39_SemaphoreBinarySticky ==
    /\ m_signaled <=> sema.fresh >= 1
    /\ sema.taken <= sema.signals
    /\ \A w \in Waiters :
          /\ (waiters[w].pc = "in" /\ m_signaled) =>
                ~WaitReturnsFalse(m_signaled, waiters[w].timeout)
          /\ waiters[w].res = "true" => waiters[w].flagAtReturn
          /\ waiters[w].res = "false" =>
                ~waiters[w].flagAtReturn /\ waiters[w].timeout >= 0
    /\ (sema.signals = sema.taken) => ~m_signaled

C39_Witness ==
    \E w, v \in Waiters :
        /\ w # v
        /\ waiters[w].res = "true" /\ waiters[w].flagAtEntry
        /\ waiters[v].res = "false" /\ waiters[v].pc = "out"
        /\ sema.signals >= 2 /\ sema.taken = 1
        /\ ~m_signaled
====
